---- MODULE Spec2Model ----
(***************************************************************************)
(* Thermal printer component (ESPHome): print-job queue, immediate print,  *)
(* paper query and usage ledger.                                           *)
(*                                                                         *)
(* The repository holds two revisions of ThermalPrinterComponent:          *)
(*   rev = "reject" : add_job_to_queue / process_queue      (reject-new)   *)
(*   rev = "evict"  : queue_print_job / process_print_queue (evict-oldest) *)
(* The revision is fixed at Init.  All handlers run on the single event    *)
(* loop thread, so each handler is one atomic action.                      *)
(***************************************************************************)
EXTENDS Integers, Sequences, FiniteSets, TLC

\* ----- bounds of the model -----
MaxJobs == 3
MaxCap == 2
MaxTime == 2000
TimeStep == 1000
RxMax == 1
MaxCalls == 2
MaxWait == 1100
MaxIdleMs == 3
MaxOps == 4
MaxFlushes == 1
MaxPollTime == 45000
MaxProbes == 1
WrapLead == 1500

\* ----- program constants -----
ASCII_LF == 10
ASCII_ESC == 27
DefaultPrintDelay == 2000
SetupDelay == 1000
SaveEvery == 100
PaperBits == 12
DefaultMaxQueueSize == 10
DefaultRollLength == 30000
DefaultLineHeight == 4
DtrTimeoutMs == 5000
BaudRate == 19200
LineWidth == 32
FlushTimeoutMs == 30000
FlushPollMs == 100
PaperCheckIntervalMs == 10000
WakeDelay == 50
StatusDelay == 100
HeatDots == 7
HeatTime == 80
HeatInterval == 2
MinLineHeight == 24
DefaultLineHeightDots == 32
MaxLineHeightMm == 10

\* uint32_t words are modelled 20 bits wide (the model checker's integers are
\* 32-bit signed); uint16_t and uint8_t keep their width.
U32 == 2 ^ 20
U16 == 2 ^ 16
U8 == 2 ^ 8

\* uint32_t subtraction, as in millis() - last_print_time_
Sub32(a, b) == (a - b) % U32

Min(a, b) == IF a < b THEN a ELSE b

\* ----- inputs -----
\* "" and "A\n"
Texts == { <<>>, <<65, 10>> }
\* "A\n"
QueuedTexts == { <<65, 10>> }
\* "Hi"
ImmediateTexts == { <<72, 105>> }
Priorities == {0, 2}
FeedLines == {1}
Caps == {0, MaxCap}
Delays == {0, DefaultPrintDelay}
Durations == {0, TimeStep}
Replies == {"intime", "none"}
NoRecord == [lines |-> 0, chars |-> 0, feeds |-> 0, valid |-> FALSE]
StoredRecords == { NoRecord }

VARIABLES
  rev,                     \* which revision of the component is built
  max_queue_size_,
  print_delay_ms_,
  print_queue_,
  printer_busy_,           \* rev "evict"
  is_processing_job_,      \* rev "reject"
  last_print_time_,        \* rev "evict"
  last_job_time_,          \* rev "reject"
  current_job_start_time_,
  total_processing_time_,
  total_jobs_processed_,
  jobs_dropped_,
  lines_printed_,
  characters_printed_,
  feeds_executed_,
  flash,                   \* the persisted usage record
  now,                     \* millis()
  paper,                   \* paper physically present in the printer
  rx,                      \* UART receive buffer (status bytes)
  executed,                \* history: jobs handed to execute_print_job, in order
  requests,                \* history: number of print requests made so far
  last,                    \* history: what the most recent handler did
  paper_roll_length_,      \* float, millimetres
  line_height_mm_,         \* float, millimetres per line
  dtr_enabled_,            \* is_dtr_enabled(): handshaking on and a pin configured
  resume_time_micros_,
  dtr_timeout_count_,
  total_bytes_sent_,
  dtr_waits_,
  timeout_waits_,
  micros,                  \* micros()
  printer_ready_in,        \* ms until the printer pulls DTR low (-1: never)
  wire,                    \* history: bytes handed to the UART by the gate
  granted,                 \* history: delay passed to the latest timeout_set
  call,                    \* the gate call in progress, or the last one returned
  paper_status_,           \* the paper status as last polled
  last_paper_check_,
  paper_check_callback_,   \* the registered observer (0: none)
  status_history,          \* history: the values paper_status_ has held
  notified,                \* history: the calls made to the observer
  probe                    \* history: arguments and outcome of the latest
                           \* formatting or estimating call

config == <<rev, max_queue_size_, print_delay_ms_>>
queue_vars == <<print_queue_, printer_busy_, is_processing_job_, last_print_time_,
                last_job_time_, current_job_start_time_, total_processing_time_,
                total_jobs_processed_, jobs_dropped_>>
usage_vars == <<lines_printed_, characters_printed_, feeds_executed_, flash>>
env_vars == <<now, paper, rx>>
roll_vars == <<paper_roll_length_, line_height_mm_>>
gate_vars == <<dtr_enabled_, resume_time_micros_, dtr_timeout_count_, total_bytes_sent_,
               dtr_waits_, timeout_waits_, micros, printer_ready_in, wire, granted, call>>
poll_vars == <<paper_status_, last_paper_check_, paper_check_callback_,
               status_history, notified>>
vars == <<config, queue_vars, usage_vars, env_vars, executed, requests, last,
          roll_vars, gate_vars, poll_vars, probe>>

\* ----- the transport and the usage ledger, threaded through a context -----
\* ctx = [sent, printed, lines, chars, feeds, flash, waits]; waits lists the
\* waits a call made, each with the number of bytes sent before it

Ctx0 == [sent |-> <<>>, printed |-> <<>>, lines |-> lines_printed_,
         chars |-> characters_printed_, feeds |-> feeds_executed_, flash |-> flash,
         waits |-> <<>>]

\* delay(ms)
delay(ctx, ms) ==
  [ctx EXCEPT !.waits = Append(@, [after |-> Len(ctx.sent), fn |-> "delay", ms |-> ms])]

\* wait_for_printer_ready(): a tenth of the timeout as a fixed delay without
\* handshaking, else a wait for the ready line of at most timeout_ms
wait_for_printer_ready(ctx, timeout_ms) ==
  IF ~dtr_enabled_ THEN delay(ctx, timeout_ms \div 10)
  ELSE [ctx EXCEPT !.waits = Append(@, [after |-> Len(ctx.sent),
                                        fn |-> "wait_for_printer_ready",
                                        ms |-> timeout_ms])]

\* if (is_dtr_enabled()) wait_for_printer_ready(timeout_ms); else delay(ms);
settle(ctx, timeout_ms, ms) ==
  IF dtr_enabled_ THEN wait_for_printer_ready(ctx, timeout_ms) ELSE delay(ctx, ms)

write_byte_with_flow_control(ctx, byte) ==
  [ctx EXCEPT !.sent = Append(@, byte)]

write_bytes3(ctx, a, b, c) ==
  write_byte_with_flow_control(
    write_byte_with_flow_control(write_byte_with_flow_control(ctx, a), b), c)

\* mutant: the line and character counters change places in the record
save_usage_to_flash_swapped(ctx) ==
  [ctx EXCEPT !.flash = [lines |-> ctx.chars, chars |-> ctx.lines,
                         feeds |-> ctx.feeds, valid |-> TRUE]]

\* save_usage_to_flash(): the three counters, field by field
save_usage_to_flash(ctx) ==
  [ctx EXCEPT !.flash = [lines |-> ctx.lines, chars |-> ctx.chars,
                         feeds |-> ctx.feeds, valid |-> TRUE]]

track_print_operation(ctx, chars, lines, feeds) ==
  [ctx EXCEPT !.chars = (@ + (chars % U16)) % U32,
              !.lines = (@ + (lines % U8)) % U32,
              !.feeds = (@ + (feeds % U8)) % U32]

write(ctx, c) ==
  LET c1 == write_byte_with_flow_control(ctx, c)
      c2 == [c1 EXCEPT !.chars = (@ + 1) % U32, !.printed = Append(@, c)]
      c3 == IF c = ASCII_LF THEN [c2 EXCEPT !.lines = (@ + 1) % U32] ELSE c2
  IN  IF c3.chars % SaveEvery = 0 THEN save_usage_to_flash(c3) ELSE c3

RECURSIVE write_buffer(_, _)
write_buffer(ctx, buffer) ==
  IF buffer = <<>> THEN ctx
  ELSE IF Len(buffer) = 1 THEN write(ctx, buffer[1])
  ELSE LET half == Len(buffer) \div 2
           c1 == write_buffer(ctx, SubSeq(buffer, 1, half))
       IN  \* the first half is written before the second is begun
           IF Len(c1.sent) >= half
           THEN write_buffer(c1, SubSeq(buffer, half + 1, Len(buffer)))
           ELSE c1

RECURSIVE CountNewlines(_)
CountNewlines(text) ==
  IF text = <<>> THEN 0
  ELSE IF Len(text) = 1 THEN (IF text[1] = ASCII_LF THEN 1 ELSE 0)
  ELSE LET half == Len(text) \div 2
       IN  CountNewlines(SubSeq(text, 1, half))
             + CountNewlines(SubSeq(text, half + 1, Len(text)))

print_text(ctx, text) ==
  IF Len(text) = 0 THEN ctx
  ELSE track_print_operation(write_buffer(ctx, text), Len(text), CountNewlines(text), 0)

set_size(ctx, value) ==
  write_bytes3(ctx, ASCII_ESC, 33,
               CASE value = "L" -> 48 [] value = "M" -> 16 [] OTHER -> 0)

set_text_size(ctx, size) ==
  set_size(ctx, IF size = 2 THEN "M" ELSE IF size >= 3 THEN "L" ELSE "S")

justify(ctx, value) ==
  write_bytes3(ctx, ASCII_ESC, 97,
               CASE value = "C" -> 1 [] value = "R" -> 2 [] OTHER -> 0)

AlignChar(a) == IF a = 0 THEN "L" ELSE IF a = 1 THEN "C" ELSE "R"

bold_on(ctx, state) == write_bytes3(ctx, ASCII_ESC, 69, IF state THEN 1 ELSE 0)
underline_on(ctx, state) == write_bytes3(ctx, ASCII_ESC, 45, IF state THEN 1 ELSE 0)
inverse_on(ctx, state) == write_bytes3(ctx, 29, 66, IF state THEN 1 ELSE 0)

\* mutant: feed() returns without waiting for the paper to move
feed_without_wait(ctx, x) ==
  track_print_operation(write_bytes3(ctx, ASCII_ESC, 100, x), 0, 0, x)

\* feed(): ESC d x, then the wait for the paper to move
feed(ctx, x) ==
  track_print_operation(
    settle(write_bytes3(ctx, ASCII_ESC, 100, x), x * 100 + 1000, x * 50 + 200), 0, 0, x)

\* set_rotation(): ESC V n
set_rotation(ctx, rotation) ==
  settle(write_bytes3(ctx, ASCII_ESC, 86, rotation % 4), 500, 50)

\* the string "\302\267" printed in place of a space
MiddleDot == <<194, 183>>
MaxRotatedChars == 20

\* print_rotated_text(): one pass of the loop over the characters.  The
\* "dtr" revision feeds three lines for a line break, the others skip it.
rotated_char(ctx, c) ==
  IF c = 32 THEN feed(print_text(ctx, MiddleDot), 1)
  ELSE IF c = ASCII_LF THEN (IF rev = "dtr" THEN feed(ctx, 3) ELSE ctx)
  ELSE settle(feed(print_text(ctx, <<c>>), 2), 2000, 100)

RECURSIVE rotated_chars(_, _)
rotated_chars(ctx, text) ==
  IF text = <<>> THEN ctx
  ELSE IF Len(text) = 1 THEN rotated_char(ctx, text[1])
  ELSE LET half == Len(text) \div 2
           c1 == rotated_chars(ctx, SubSeq(text, 1, half))
       IN  \* the loop reaches the second half after the first
           IF Len(c1.sent) >= Len(ctx.sent)
           THEN rotated_chars(c1, SubSeq(text, half + 1, Len(text)))
           ELSE c1

\* print_rotated_text(): revisions "evict" and "reject" take the rotated
\* path whatever the rotation argument; "dtr" takes it for rotation 1 only
print_rotated_text(ctx, text, rotation) ==
  IF Len(text) = 0 THEN ctx
  ELSE IF rev = "dtr" /\ rotation # 1 THEN feed(print_text(ctx, text), 1)
  ELSE LET max_chars == IF Len(text) > MaxRotatedChars THEN MaxRotatedChars ELSE Len(text)
           c1 == set_rotation(justify(set_text_size(ctx, 1), "C"), 1)
           c2 == rotated_chars(c1, SubSeq(text, 1, max_chars))
       IN  feed(set_text_size(justify(set_rotation(c2, 0), "L"), 2), 3)

\* ----- paper status query -----
StatusByte == IF paper THEN 0 ELSE PaperBits

\* (status & 0x0C) == 0
PaperBitsClear(status) == (status \div 4) % 4 = 0

\* has_paper(): send ESC 'v' 0, wait, then read at most one byte.
\* status is the byte the printer answers the query with.
\* reply = "intime": the printer's answer is in the buffer when available()
\* is evaluated; "late": it arrives after the call has returned; "none": the
\* printer does not answer.
\* mutant: only bit 2 of the status byte is tested
has_paper_reading_bit2_only(ctx, rxbuf, reply, status) ==
  LET c1 == settle(write_bytes3(ctx, ASCII_ESC, 118, 0), 1000, 100)
      buf == IF reply = "intime" THEN Append(rxbuf, status) ELSE rxbuf
      rest == IF buf # <<>> THEN Tail(buf) ELSE buf
  IN  [ctx |-> c1,
       ok |-> IF buf # <<>> THEN (Head(buf) \div 4) % 2 = 0 ELSE TRUE,
       rx |-> IF reply = "late" THEN Append(rest, status) ELSE rest]

has_paper_reading(ctx, rxbuf, reply, status) ==
  LET c1 == settle(write_bytes3(ctx, ASCII_ESC, 118, 0), 1000, 100)
      buf == IF reply = "intime" THEN Append(rxbuf, status) ELSE rxbuf
      rest == IF buf # <<>> THEN Tail(buf) ELSE buf
  IN  [ctx |-> c1,
       ok |-> IF buf # <<>> THEN PaperBitsClear(Head(buf)) ELSE TRUE,
       rx |-> IF reply = "late" THEN Append(rest, status) ELSE rest]

\* has_paper() on a printer that reports its paper sensor only
has_paper(ctx, rxbuf, reply) == has_paper_reading(ctx, rxbuf, reply, StatusByte)

\* the receive buffer is finite: a late answer needs room
ReplyFits(rxbuf, reply) ==
  reply = "late" => Len(has_paper(Ctx0, rxbuf, reply).rx) <= RxMax

\* ----- jobs -----
NewJob(type, data1, param1, param2, param3, priority) ==
  [id |-> requests + 1, type |-> type, data1 |-> data1, param1 |-> param1,
   param2 |-> param2, param3 |-> param3, flag2 |-> FALSE, flag3 |-> FALSE,
   timestamp |-> 0, priority |-> priority]

\* rev "evict": execute_print_job
execute_print_job(ctx, job) ==
  CASE job.type = "TEXT" ->
         justify(bold_on(print_text(bold_on(justify(set_text_size(ctx, job.param1),
                 AlignChar(job.param2)), job.param3), job.data1), FALSE), "L")
    [] job.type = "FEED_PAPER" -> feed(ctx, job.param1)
    [] OTHER -> ctx

\* rev "reject": execute_print_job
execute_print_job_reject(ctx, job) ==
  CASE job.type = "TEXT" ->
         LET c1 == IF job.param1 >= 1 THEN set_text_size(ctx, Min(job.param1, 3)) ELSE ctx
             c2 == IF job.param2 <= 2 THEN justify(c1, AlignChar(job.param2)) ELSE c1
             c3 == inverse_on(underline_on(bold_on(c2, job.param3), job.flag2), job.flag3)
             c4 == write(print_text(c3, job.data1), ASCII_LF)
             c5 == inverse_on(underline_on(bold_on(c4, FALSE), FALSE), FALSE)
         IN  set_text_size(justify(c5, "L"), 2)
    [] job.type = "FEED" -> feed(ctx, job.param1)
    [] OTHER -> ctx

NoProbe == [fn |-> "none"]

NoLast == [op |-> "init", fn |-> "setup", result |-> "none", paper_ok |-> "unchecked",
           sent |-> <<>>, printed |-> <<>>, job |-> 0, accepted |-> 0, evicted |-> 0]

PaperStr(b) == IF b THEN "yes" ELSE "no"

set_max_queue_size(max_size) == max_size % U8
set_print_delay(delay_ms) == delay_ms % U32

\* load_usage_from_flash(): counters restored from the stored record, if any
load_usage_from_flash(rec) ==
  IF rec.valid THEN [lines |-> rec.lines, chars |-> rec.chars, feeds |-> rec.feeds]
  ELSE [lines |-> 0, chars |-> 0, feeds |-> 0]

\* State after construction, configuration (the setters) and setup(), but for
\* the two busy flags.
InitComponent ==
  /\ rev \in {"reject", "evict"}
  /\ \E m \in Caps : max_queue_size_ = set_max_queue_size(m)
  /\ \E d \in Delays : print_delay_ms_ = set_print_delay(d)
  /\ print_queue_ = <<>>
  /\ last_print_time_ = 0
  /\ last_job_time_ = 0
  /\ current_job_start_time_ = 0
  /\ total_processing_time_ = 0
  /\ total_jobs_processed_ = 0
  /\ jobs_dropped_ = 0
  /\ flash \in StoredRecords
  /\ lines_printed_ = load_usage_from_flash(flash).lines
  /\ characters_printed_ = load_usage_from_flash(flash).chars
  /\ feeds_executed_ = load_usage_from_flash(flash).feeds
  /\ now = SetupDelay
  /\ paper \in BOOLEAN
  /\ rx = <<>>
  /\ executed = <<>>
  /\ requests = 0
  /\ last = NoLast
  /\ probe = NoProbe

\* the roll and the flow-control gate as constructed (header defaults); the
\* queue handlers are modelled over the byte stream of their context, and the
\* gate's clock and counters are stepped in SpecGate
NoCall == [pc |-> "idle", fn |-> "none", n |-> 0, byte |-> 0, start_time |-> 0,
           timeout_ms |-> 0, waited |-> 0, timed_out |-> FALSE]

RollDefaults ==
  /\ paper_roll_length_ = DefaultRollLength
  /\ line_height_mm_ = DefaultLineHeight

\* the paper poll after setup(): the status is the one setup read from a
\* printer that answers, nobody observes
PollIdle ==
  /\ paper_status_ = paper
  /\ last_paper_check_ = 0
  /\ paper_check_callback_ = 0
  /\ status_history = <<paper>>
  /\ notified = <<>>

GateIdle ==
  /\ dtr_enabled_ = FALSE
  /\ resume_time_micros_ = 0
  /\ dtr_timeout_count_ = 0
  /\ total_bytes_sent_ = 0
  /\ dtr_waits_ = 0
  /\ timeout_waits_ = 0
  /\ micros = 0
  /\ printer_ready_in = 0
  /\ wire = <<>>
  /\ granted = 0
  /\ call = NoCall

Init ==
  /\ InitComponent
  /\ RollDefaults
  /\ GateIdle
  /\ PollIdle
  /\ printer_busy_ = FALSE
  /\ is_processing_job_ = FALSE

\* The handlers as seen by a caller that runs while a job is being executed,
\* the only time the busy flag of the revision is set: the flag is an input.
InitMidJob ==
  /\ InitComponent
  /\ RollDefaults
  /\ GateIdle
  /\ PollIdle
  /\ printer_busy_ \in (IF rev = "evict" THEN BOOLEAN ELSE {FALSE})
  /\ is_processing_job_ \in (IF rev = "reject" THEN BOOLEAN ELSE {FALSE})

\* the context's ledger written back to the component
Commit(ctx) ==
  /\ lines_printed_' = ctx.lines
  /\ characters_printed_' = ctx.chars
  /\ feeds_executed_' = ctx.feeds
  /\ flash' = ctx.flash

\* ----- handlers as functions from the state before to the state after -----
\* The record a handler returns: the component fields it may assign, the
\* context of bytes sent and ledger, the receive buffer and the clock.
Pre(busy, last_time) ==
  [queue |-> print_queue_, busy |-> busy, last_time |-> last_time,
   start_time |-> current_job_start_time_, proc_time |-> total_processing_time_,
   processed |-> total_jobs_processed_, dropped |-> jobs_dropped_,
   ctx |-> Ctx0, rx |-> rx, now |-> now,
   result |-> "none", paper_ok |-> "unchecked", job |-> 0, job_priority |-> 0,
   accepted |-> 0, evicted |-> 0]

PreEvict == Pre(printer_busy_, last_print_time_)
PreReject == Pre(is_processing_job_, last_job_time_)

\* ===== rev "evict" =====

\* mutant: a job of higher priority is queued ahead of the jobs waiting
queue_print_job_by_priority(job) ==
  LET q == print_queue_
      full == Len(q) >= max_queue_size_
      queued_job == [job EXCEPT !.timestamp = now]
      kept == IF full /\ q # <<>> THEN Tail(q) ELSE q
  IN  { [PreEvict EXCEPT !.queue = IF kept # <<>> /\ job.priority > Head(kept).priority
                                  THEN <<queued_job>> \o kept
                                  ELSE Append(kept, queued_job),
                         !.dropped = IF full THEN (@ + 1) % U32 ELSE @,
                         !.evicted = IF full /\ q # <<>> THEN Head(q).id ELSE 0,
                         !.accepted = job.id,
                         !.result = "SUCCESS"] }

\* queue_print_job(): the set of queues the call can leave behind.  pop() on
\* an empty std::queue is undefined behaviour: the new job is then either
\* stored or lost.
queue_print_job(job) ==
  LET q == print_queue_
      full == Len(q) >= max_queue_size_
      queued_job == [job EXCEPT !.timestamp = now]
      after == IF ~full THEN {Append(q, queued_job)}
               ELSE IF q # <<>> THEN {Append(Tail(q), queued_job)}
               ELSE {<<queued_job>>, <<>>}
  IN  { [PreEvict EXCEPT !.queue = a,
                         !.dropped = IF full THEN (@ + 1) % U32 ELSE @,
                         !.evicted = IF full /\ q # <<>> THEN Head(q).id ELSE 0,
                         !.accepted = job.id,
                         !.result = "SUCCESS"] : a \in after }

\* mutant: the delay is checked against a deadline, last_print_time_ + delay
should_process_queue_by_deadline(reply) ==
  IF printer_busy_ THEN [ok |-> FALSE, post |-> PreEvict]
  ELSE IF now < (last_print_time_ + print_delay_ms_) % U32
       THEN [ok |-> FALSE, post |-> PreEvict]
  ELSE LET hp == has_paper(Ctx0, rx, reply)
       IN  [ok |-> hp.ok,
            post |-> [PreEvict EXCEPT !.ctx = hp.ctx, !.rx = hp.rx,
                                      !.paper_ok = PaperStr(hp.ok)]]

\* mutant: the answer of the paper query is ignored
should_process_queue_ignores_paper(reply) ==
  IF printer_busy_ THEN [ok |-> FALSE, post |-> PreEvict]
  ELSE IF Sub32(now, last_print_time_) < print_delay_ms_ THEN [ok |-> FALSE, post |-> PreEvict]
  ELSE LET hp == has_paper(Ctx0, rx, reply)
       IN  [ok |-> TRUE,
            post |-> [PreEvict EXCEPT !.ctx = hp.ctx, !.rx = hp.rx,
                                      !.paper_ok = PaperStr(hp.ok)]]

\* mutant: the busy flag is not looked at
should_process_queue_ignores_busy(reply) ==
  IF Sub32(now, last_print_time_) < print_delay_ms_ THEN [ok |-> FALSE, post |-> PreEvict]
  ELSE LET hp == has_paper(Ctx0, rx, reply)
       IN  [ok |-> hp.ok,
            post |-> [PreEvict EXCEPT !.ctx = hp.ctx, !.rx = hp.rx,
                                      !.paper_ok = PaperStr(hp.ok)]]

\* should_process_queue(): busy, then delay, then paper
should_process_queue(reply) ==
  IF printer_busy_ THEN [ok |-> FALSE, post |-> PreEvict]
  ELSE IF Sub32(now, last_print_time_) < print_delay_ms_ THEN [ok |-> FALSE, post |-> PreEvict]
  ELSE LET hp == has_paper(Ctx0, rx, reply)
       IN  [ok |-> hp.ok,
            post |-> [PreEvict EXCEPT !.ctx = hp.ctx, !.rx = hp.rx,
                                      !.paper_ok = PaperStr(hp.ok)]]

\* mutant: the job is executed but left at the front of the queue
process_print_queue_no_pop(reply, t2) ==
  LET sp == should_process_queue(reply)
  IN  IF ~sp.ok THEN sp.post
      ELSE IF print_queue_ = <<>> THEN sp.post
      ELSE LET job == Head(print_queue_)
           IN [sp.post EXCEPT !.start_time = sp.post.now,
                              !.ctx = execute_print_job(sp.post.ctx, job),
                              !.proc_time = (@ + Sub32(t2, sp.post.now)) % U32,
                              !.last_time = t2,
                              !.processed = (@ + 1) % U32,
                              !.busy = FALSE,
                              !.now = t2,
                              !.job = job.id,
                              !.job_priority = job.priority]

\* process_print_queue(): t2 = millis() when the job ends
process_print_queue(reply, t2) ==
  LET sp == should_process_queue(reply)
  IN  IF ~sp.ok THEN sp.post
      ELSE IF print_queue_ = <<>> THEN sp.post
      ELSE LET job == Head(print_queue_)
           IN [sp.post EXCEPT !.queue = Tail(print_queue_),
                              !.start_time = sp.post.now,
                              !.ctx = execute_print_job(sp.post.ctx, job),
                              !.proc_time = (@ + Sub32(t2, sp.post.now)) % U32,
                              !.last_time = t2,
                              !.processed = (@ + 1) % U32,
                              !.busy = FALSE,
                              !.now = t2,
                              !.job = job.id,
                              !.job_priority = job.priority]

\* mutant: the busy flag is not looked at
print_immediate_no_busy_check(text, size, align, bold, reply, t2) ==
  LET hp == has_paper(Ctx0, rx, reply)
      asked == [PreEvict EXCEPT !.ctx = hp.ctx, !.rx = hp.rx,
                                !.paper_ok = PaperStr(hp.ok)]
  IN  IF ~hp.ok THEN [asked EXCEPT !.result = "PAPER_OUT"]
      ELSE [asked EXCEPT
              !.ctx = justify(bold_on(print_text(bold_on(justify(
                        set_text_size(hp.ctx, size), AlignChar(align)), bold),
                        text), FALSE), "L"),
              !.busy = FALSE,
              !.last_time = t2,
              !.now = t2,
              !.result = "SUCCESS"]

\* mutant: the immediate print takes the place of the job at the front
print_immediate_takes_front(text, size, align, bold, reply, t2) ==
  IF printer_busy_ THEN [PreEvict EXCEPT !.result = "PRINTER_OFFLINE"]
  ELSE LET hp == has_paper(Ctx0, rx, reply)
           asked == [PreEvict EXCEPT !.ctx = hp.ctx, !.rx = hp.rx,
                                     !.paper_ok = PaperStr(hp.ok)]
       IN  IF ~hp.ok THEN [asked EXCEPT !.result = "PAPER_OUT"]
           ELSE [asked EXCEPT
                   !.ctx = justify(bold_on(print_text(bold_on(justify(
                             set_text_size(hp.ctx, size), AlignChar(align)), bold),
                             text), FALSE), "L"),
                   !.queue = IF @ # <<>> THEN Tail(@) ELSE @,
                   !.busy = FALSE,
                   !.last_time = t2,
                   !.now = t2,
                   !.result = "SUCCESS"]

\* print_immediate(): t2 = millis() when the text has been printed
print_immediate(text, size, align, bold, reply, t2) ==
  IF printer_busy_ THEN [PreEvict EXCEPT !.result = "PRINTER_OFFLINE"]
  ELSE LET hp == has_paper(Ctx0, rx, reply)
           asked == [PreEvict EXCEPT !.ctx = hp.ctx, !.rx = hp.rx,
                                     !.paper_ok = PaperStr(hp.ok)]
       IN  IF ~hp.ok THEN [asked EXCEPT !.result = "PAPER_OUT"]
           ELSE [asked EXCEPT
                   !.ctx = justify(bold_on(print_text(bold_on(justify(
                             set_text_size(hp.ctx, size), AlignChar(align)), bold),
                             text), FALSE), "L"),
                   !.busy = FALSE,
                   !.last_time = t2,
                   !.now = t2,
                   !.result = "SUCCESS"]

clear_print_queue == [PreEvict EXCEPT !.queue = <<>>]

\* ===== rev "reject" =====

is_queue_full(q) == Len(q) >= max_queue_size_

\* mutant: the job is pushed although the queue is full
add_job_to_queue_pushes_when_full(job) ==
  IF is_queue_full(print_queue_)
  THEN [PreReject EXCEPT !.queue = Append(@, job), !.dropped = (@ + 1) % U32,
                         !.result = "QUEUE_FULL"]
  ELSE [PreReject EXCEPT !.queue = Append(@, job), !.accepted = job.id,
                         !.result = "SUCCESS"]

add_job_to_queue(job) ==
  IF is_queue_full(print_queue_)
  THEN [PreReject EXCEPT !.dropped = (@ + 1) % U32, !.result = "QUEUE_FULL"]
  ELSE [PreReject EXCEPT !.queue = Append(@, job), !.accepted = job.id,
                         !.result = "SUCCESS"]

queue_text_job(text, size, alignment, bold, underline, inverse) ==
  IF Len(text) = 0 THEN [PreReject EXCEPT !.result = "SUCCESS"]
  ELSE add_job_to_queue([NewJob("TEXT", text, size, alignment, bold, 0)
                           EXCEPT !.flag2 = underline, !.flag3 = inverse,
                                  !.timestamp = now])

queue_feed_job(lines) ==
  add_job_to_queue([NewJob("FEED", <<>>, lines, 0, FALSE, 0) EXCEPT !.timestamp = now])

process_queue(reply, t2) ==
  IF print_queue_ = <<>> \/ is_processing_job_ THEN PreReject
  ELSE IF Sub32(now, last_job_time_) < print_delay_ms_ THEN PreReject
  ELSE LET hp == has_paper(Ctx0, rx, reply)
           asked == [PreReject EXCEPT !.ctx = hp.ctx, !.rx = hp.rx,
                                      !.paper_ok = PaperStr(hp.ok)]
           job == Head(print_queue_)
       IN  IF ~hp.ok THEN asked
           ELSE [asked EXCEPT !.queue = Tail(print_queue_),
                              !.ctx = execute_print_job_reject(hp.ctx, job),
                              !.processed = (@ + 1) % U32,
                              !.last_time = t2,
                              !.busy = FALSE,
                              !.now = t2,
                              !.job = job.id,
                              !.job_priority = job.priority]

clear_queue == [PreReject EXCEPT !.queue = <<>>]

\* ----- actions -----
LastOf(p, op, fn) ==
  [op |-> op, fn |-> fn, result |-> p.result, paper_ok |-> p.paper_ok,
   sent |-> p.ctx.sent, printed |-> p.ctx.printed, job |-> p.job,
   accepted |-> p.accepted, evicted |-> p.evicted]

\* the fields a handler leaves behind
ApplyFields(p, op, fn) ==
  /\ print_queue_' = p.queue
  /\ current_job_start_time_' = p.start_time
  /\ total_processing_time_' = p.proc_time
  /\ total_jobs_processed_' = p.processed
  /\ jobs_dropped_' = p.dropped
  /\ Commit(p.ctx)
  /\ rx' = p.rx
  /\ now' = p.now
  /\ executed' = IF p.job # 0
                 THEN Append(executed, [id |-> p.job, priority |-> p.job_priority])
                 ELSE executed
  /\ last' = LastOf(p, op, fn)
  /\ UNCHANGED <<config, paper, roll_vars, gate_vars, poll_vars, probe>>

\* the stretch of the millisecond clock the model follows: up to MaxTime, and
\* the last WrapLead milliseconds before the counter wraps
InHorizon(t) == t <= MaxTime \/ t >= U32 - WrapLead

ApplyCommon(p, op, fn) ==
  /\ InHorizon(p.now)
  /\ ApplyFields(p, op, fn)

ApplyEvict(p, op, fn) ==
  /\ ApplyCommon(p, op, fn)
  /\ printer_busy_' = p.busy
  /\ last_print_time_' = p.last_time
  /\ UNCHANGED <<is_processing_job_, last_job_time_>>

ApplyReject(p, op, fn) ==
  /\ ApplyCommon(p, op, fn)
  /\ is_processing_job_' = p.busy
  /\ last_job_time_' = p.last_time
  /\ UNCHANGED <<printer_busy_, last_print_time_>>

create_text_job(text, size, align, bold, priority) ==
  NewJob("TEXT", text, size, align, bold, priority)

QueueText ==
  /\ rev = "evict"
  /\ requests < MaxJobs
  /\ \E text \in QueuedTexts, priority \in Priorities :
       \E p \in queue_print_job(create_text_job(text, 2, 0, FALSE, priority)) :
         ApplyEvict(p, "enqueue", "queue_text")
  /\ requests' = requests + 1

QueueFeed ==
  /\ rev = "evict"
  /\ requests < MaxJobs
  /\ \E lines \in FeedLines :
       \E p \in queue_print_job(NewJob("FEED_PAPER", <<>>, lines, 0, FALSE, 0)) :
         ApplyEvict(p, "enqueue", "queue_feed")
  /\ requests' = requests + 1

ProcessPrintQueue ==
  /\ rev = "evict"
  /\ \E reply \in Replies, d \in Durations :
       /\ ReplyFits(rx, reply)
       /\ ApplyEvict(process_print_queue(reply, (now + d) % U32),
                     "tick", "process_print_queue")
  /\ UNCHANGED requests

PrintImmediate ==
  /\ rev = "evict"
  /\ \E text \in ImmediateTexts, reply \in Replies, d \in Durations :
       LET p == print_immediate(text, 2, 1, TRUE, reply, (now + d) % U32)
       IN  /\ ReplyFits(rx, reply)
           /\ p.result = "SUCCESS" => requests < MaxJobs
           /\ ApplyEvict(p, "immediate", "print_immediate")
           /\ requests' = IF p.result = "SUCCESS" THEN requests + 1 ELSE requests

ClearPrintQueue ==
  /\ rev = "evict"
  /\ ApplyEvict(clear_print_queue, "clear", "clear_print_queue")
  /\ UNCHANGED requests

QueueTextJob ==
  /\ rev = "reject"
  /\ requests < MaxJobs
  /\ \E text \in Texts :
       ApplyReject(queue_text_job(text, 2, 0, FALSE, FALSE, FALSE),
                   IF Len(text) = 0 THEN "enqueue_empty" ELSE "enqueue",
                   "queue_text_job")
  /\ requests' = requests + 1

QueueFeedJob ==
  /\ rev = "reject"
  /\ requests < MaxJobs
  /\ \E lines \in FeedLines :
       ApplyReject(queue_feed_job(lines), "enqueue", "queue_feed_job")
  /\ requests' = requests + 1

ProcessQueue ==
  /\ rev = "reject"
  /\ \E reply \in Replies, d \in Durations :
       /\ ReplyFits(rx, reply)
       /\ ApplyReject(process_queue(reply, (now + d) % U32),
                      "tick", "process_queue")
  /\ UNCHANGED requests

ClearQueue ==
  /\ rev = "reject"
  /\ ApplyReject(clear_queue, "clear", "clear_queue")
  /\ UNCHANGED requests

\* the environment: time passes, the paper runs out or is refilled
Elapse ==
  /\ InHorizon((now + TimeStep) % U32)
  /\ now' = (now + TimeStep) % U32
  /\ last' = [NoLast EXCEPT !.op = "env", !.fn = "elapse"]
  /\ UNCHANGED <<config, queue_vars, usage_vars, paper, rx, executed, requests,
                 roll_vars, gate_vars, poll_vars, probe>>

PaperChange ==
  /\ paper' = ~paper
  /\ last' = [NoLast EXCEPT !.op = "env", !.fn = "paper"]
  /\ UNCHANGED <<config, queue_vars, usage_vars, now, rx, executed, requests,
                 roll_vars, gate_vars, poll_vars, probe>>

Next ==
  \/ QueueText
  \/ QueueFeed
  \/ ProcessPrintQueue
  \/ PrintImmediate
  \/ ClearPrintQueue
  \/ QueueTextJob
  \/ QueueFeedJob
  \/ ProcessQueue
  \/ ClearQueue
  \/ Elapse
  \/ PaperChange

Spec == Init /\ [][Next]_vars

SpecMidJob == InitMidJob /\ [][Next]_vars

\* ----- the millisecond clock about to wrap -----
\* a component that has been up for almost a full turn of the clock and
\* completed its latest job PriorJobAges milliseconds ago
PriorJobAges == {2000, 500}

InitWrap ==
  /\ rev \in {"reject", "evict"}
  /\ max_queue_size_ = DefaultMaxQueueSize
  /\ \E d \in Delays : print_delay_ms_ = set_print_delay(d)
  /\ print_queue_ = <<>>
  /\ printer_busy_ = FALSE
  /\ is_processing_job_ = FALSE
  /\ now = U32 - WrapLead
  /\ \E age \in PriorJobAges :
       /\ last_print_time_ = IF rev = "evict" THEN Sub32(now, age) ELSE 0
       /\ last_job_time_ = IF rev = "reject" THEN Sub32(now, age) ELSE 0
  /\ current_job_start_time_ = 0
  /\ total_processing_time_ = 0
  /\ total_jobs_processed_ = 1
  /\ jobs_dropped_ = 0
  /\ flash \in StoredRecords
  /\ lines_printed_ = load_usage_from_flash(flash).lines
  /\ characters_printed_ = load_usage_from_flash(flash).chars
  /\ feeds_executed_ = load_usage_from_flash(flash).feeds
  /\ paper \in BOOLEAN
  /\ rx = <<>>
  /\ executed = <<>>
  /\ requests = 0
  /\ last = NoLast
  /\ probe = NoProbe
  /\ RollDefaults
  /\ GateIdle
  /\ PollIdle

NextWrap ==
  \/ QueueText
  \/ ProcessPrintQueue
  \/ PrintImmediate
  \/ QueueTextJob
  \/ ProcessQueue
  \/ Elapse

SpecWrap == InitWrap /\ [][NextWrap]_vars

\* ===== the flow-control gate, stepped through its wait loops =====
\* One thread: a call is entered from idle and runs until it returns.  A loop
\* iteration (test, then delay) is one step; leaving the loop and the rest of
\* the function is one step.

GateBytes == {65}
\* ms after the call starts at which the printer pulls DTR low; -1: never
ReadyIn == {-1, 0, 2}
WaitTimeouts == {0, 100}
MicrosStarts == {0, U32 - 2000}
MillisStarts == {SetupDelay, U32 - 3}

\* the component outside the gate: constructed, set up, nothing queued
QueueIdle ==
  /\ max_queue_size_ = DefaultMaxQueueSize
  /\ print_delay_ms_ = DefaultPrintDelay
  /\ print_queue_ = <<>>
  /\ printer_busy_ = FALSE
  /\ is_processing_job_ = FALSE
  /\ last_print_time_ = 0
  /\ last_job_time_ = 0
  /\ current_job_start_time_ = 0
  /\ total_processing_time_ = 0
  /\ total_jobs_processed_ = 0
  /\ jobs_dropped_ = 0
  /\ rx = <<>>
  /\ executed = <<>>
  /\ requests = 0
  /\ last = NoLast
  /\ probe = NoProbe

\* initialize_dtr_timings(): ten bit times per byte
byte_time_micros_ == (10 * 1000000) \div BaudRate

is_dtr_enabled == dtr_enabled_

\* dtr_ready(): the pin reads low
dtr_ready == IF ~is_dtr_enabled THEN TRUE ELSE printer_ready_in = 0

\* timeout_set(): resume_time_micros_ = micros() + delay_microseconds
timeout_set(delay_microseconds) ==
  /\ resume_time_micros_' = (micros + delay_microseconds) % U32
  /\ granted' = delay_microseconds

\* delay(1)
Delay1 ==
  /\ now' = (now + 1) % U32
  /\ micros' = (micros + 1000) % U32
  /\ printer_ready_in' = IF printer_ready_in > 0 THEN printer_ready_in - 1
                          ELSE printer_ready_in

\* millis() - start_time > timeout_ms
Expired == Sub32(now, call.start_time) > call.timeout_ms

InitGate ==
  /\ rev = "evict"
  /\ QueueIdle
  /\ RollDefaults
  /\ flash = NoRecord
  /\ lines_printed_ = 0
  /\ characters_printed_ = 0
  /\ feeds_executed_ = 0
  /\ paper = TRUE
  /\ PollIdle
  /\ dtr_enabled_ \in BOOLEAN
  /\ now \in (IF dtr_enabled_ THEN MillisStarts ELSE {SetupDelay})
  /\ micros \in (IF dtr_enabled_ THEN {0} ELSE MicrosStarts)
  /\ resume_time_micros_ = 0
  /\ dtr_timeout_count_ = 0
  /\ total_bytes_sent_ = 0
  /\ dtr_waits_ = 0
  /\ timeout_waits_ = 0
  /\ printer_ready_in = 0
  /\ wire = <<>>
  /\ granted = 0
  /\ call = NoCall

not_gate_vars == <<config, queue_vars, usage_vars, paper, rx, executed, requests, last,
                   roll_vars, dtr_enabled_, poll_vars, probe>>

\* write_byte_with_flow_control(byte) is entered: timeout_wait() begins
WriteByteWithFlowControl_Call ==
  /\ call.pc = "idle"
  /\ call.n < MaxCalls
  /\ \E b \in GateBytes, r \in (IF is_dtr_enabled THEN ReadyIn ELSE {printer_ready_in}) :
       /\ call' = [pc |-> "timeout_wait", fn |-> "write_byte_with_flow_control",
                   n |-> call.n + 1, byte |-> b, start_time |-> now,
                   timeout_ms |-> DtrTimeoutMs, waited |-> 0, timed_out |-> FALSE]
       /\ printer_ready_in' = r
  /\ UNCHANGED <<not_gate_vars, now, micros, resume_time_micros_, dtr_timeout_count_,
                 total_bytes_sent_, dtr_waits_, timeout_waits_, wire, granted>>

\* timeout_wait(), handshake branch: not ready and not expired, delay(1)
TimeoutWait_DtrLoop ==
  /\ call.pc = "timeout_wait"
  /\ is_dtr_enabled
  /\ ~dtr_ready
  /\ ~Expired
  /\ Delay1
  /\ UNCHANGED <<not_gate_vars, resume_time_micros_, dtr_timeout_count_,
                 total_bytes_sent_, dtr_waits_, timeout_waits_, wire, granted, call>>

\* mutant: a timeout of the handshake drops the byte
TimeoutWait_DtrExit_aborts ==
  /\ call.pc = "timeout_wait"
  /\ is_dtr_enabled
  /\ dtr_ready \/ Expired
  /\ dtr_timeout_count_' = IF ~dtr_ready THEN (dtr_timeout_count_ + 1) % U32
                            ELSE dtr_timeout_count_
  /\ dtr_waits_' = (dtr_waits_ + 1) % U32
  /\ wire' = IF ~dtr_ready THEN wire ELSE Append(wire, call.byte)
  /\ total_bytes_sent_' = IF ~dtr_ready THEN total_bytes_sent_
                           ELSE (total_bytes_sent_ + 1) % U32
  /\ timeout_set(byte_time_micros_ \div 4)
  /\ call' = [call EXCEPT !.pc = "idle", !.timed_out = ~dtr_ready]
  /\ UNCHANGED <<not_gate_vars, now, micros, timeout_waits_, printer_ready_in>>

\* timeout_wait(), handshake branch: ready, or expired (counted); then the
\* rest of write_byte_with_flow_control: write_byte, count, timeout_set
TimeoutWait_DtrExit ==
  /\ call.pc = "timeout_wait"
  /\ is_dtr_enabled
  /\ dtr_ready \/ Expired
  /\ dtr_timeout_count_' = IF ~dtr_ready THEN (dtr_timeout_count_ + 1) % U32
                            ELSE dtr_timeout_count_
  /\ dtr_waits_' = (dtr_waits_ + 1) % U32
  /\ wire' = Append(wire, call.byte)
  /\ total_bytes_sent_' = (total_bytes_sent_ + 1) % U32
  /\ timeout_set(byte_time_micros_ \div 4)
  /\ call' = [call EXCEPT !.pc = "idle", !.timed_out = ~dtr_ready]
  /\ UNCHANGED <<not_gate_vars, now, micros, timeout_waits_, printer_ready_in>>

\* timeout_wait(), timed branch: micros() < resume_time_micros_,
\* delayMicroseconds(10)
TimeoutWait_SoftLoop ==
  /\ call.pc = "timeout_wait"
  /\ ~is_dtr_enabled
  /\ micros < resume_time_micros_
  /\ call.waited <= MaxWait
  /\ micros' = (micros + 10) % U32
  /\ call' = [call EXCEPT !.waited = @ + 10]
  /\ UNCHANGED <<not_gate_vars, now, resume_time_micros_, dtr_timeout_count_,
                 total_bytes_sent_, dtr_waits_, timeout_waits_, printer_ready_in,
                 wire, granted>>

\* timeout_wait(), timed branch: the loop ends; then write_byte, count,
\* timeout_set
TimeoutWait_SoftExit ==
  /\ call.pc = "timeout_wait"
  /\ ~is_dtr_enabled
  /\ ~(micros < resume_time_micros_)
  /\ timeout_waits_' = (timeout_waits_ + 1) % U32
  /\ wire' = Append(wire, call.byte)
  /\ total_bytes_sent_' = (total_bytes_sent_ + 1) % U32
  /\ timeout_set(byte_time_micros_ * 2)
  /\ call' = [call EXCEPT !.pc = "idle"]
  /\ UNCHANGED <<not_gate_vars, now, micros, dtr_timeout_count_, dtr_waits_,
                 printer_ready_in>>

\* wait_for_printer_ready(timeout_ms) is entered; without handshaking it is
\* delay(timeout_ms / 10) and returns
WaitForPrinterReady_Call ==
  /\ call.pc = "idle"
  /\ call.n < MaxCalls
  /\ \E t \in WaitTimeouts, r \in (IF is_dtr_enabled THEN ReadyIn ELSE {printer_ready_in}) :
       /\ call' = [pc |-> IF is_dtr_enabled THEN "wait_ready" ELSE "idle",
                   fn |-> "wait_for_printer_ready", n |-> call.n + 1, byte |-> 0,
                   start_time |-> now, timeout_ms |-> t, waited |-> 0,
                   timed_out |-> FALSE]
       /\ printer_ready_in' = r
       /\ now' = IF is_dtr_enabled THEN now ELSE (now + t \div 10) % U32
       /\ micros' = IF is_dtr_enabled THEN micros
                     ELSE (micros + 1000 * (t \div 10)) % U32
  /\ UNCHANGED <<not_gate_vars, resume_time_micros_, dtr_timeout_count_,
                 total_bytes_sent_, dtr_waits_, timeout_waits_, wire, granted>>

\* wait_for_printer_ready(): not ready and not expired, delay(1)
WaitForPrinterReady_Loop ==
  /\ call.pc = "wait_ready"
  /\ ~dtr_ready
  /\ ~Expired
  /\ Delay1
  /\ UNCHANGED <<not_gate_vars, resume_time_micros_, dtr_timeout_count_,
                 total_bytes_sent_, dtr_waits_, timeout_waits_, wire, granted, call>>

\* mutant: the expiry is not counted
WaitForPrinterReady_Exit_uncounted ==
  /\ call.pc = "wait_ready"
  /\ dtr_ready \/ Expired
  /\ call' = [call EXCEPT !.pc = "idle", !.timed_out = ~dtr_ready]
  /\ UNCHANGED <<not_gate_vars, now, micros, resume_time_micros_, dtr_timeout_count_,
                 total_bytes_sent_, dtr_waits_, timeout_waits_, printer_ready_in,
                 wire, granted>>

\* wait_for_printer_ready(): ready, or expired (counted); return
WaitForPrinterReady_Exit ==
  /\ call.pc = "wait_ready"
  /\ dtr_ready \/ Expired
  /\ dtr_timeout_count_' = IF ~dtr_ready THEN (dtr_timeout_count_ + 1) % U32
                            ELSE dtr_timeout_count_
  /\ call' = [call EXCEPT !.pc = "idle", !.timed_out = ~dtr_ready]
  /\ UNCHANGED <<not_gate_vars, now, micros, resume_time_micros_,
                 total_bytes_sent_, dtr_waits_, timeout_waits_, printer_ready_in,
                 wire, granted>>

\* time passes between two calls of the gate
GateElapse ==
  /\ call.pc = "idle"
  /\ Sub32(now, SetupDelay) < MaxIdleMs
  /\ now' = (now + 1) % U32
  /\ micros' = (micros + 1000) % U32
  /\ UNCHANGED <<not_gate_vars, resume_time_micros_, dtr_timeout_count_,
                 total_bytes_sent_, dtr_waits_, timeout_waits_, printer_ready_in,
                 wire, granted, call>>

NextGate ==
  \/ WriteByteWithFlowControl_Call
  \/ TimeoutWait_DtrLoop
  \/ TimeoutWait_DtrExit
  \/ TimeoutWait_SoftLoop
  \/ TimeoutWait_SoftExit
  \/ WaitForPrinterReady_Call
  \/ WaitForPrinterReady_Loop
  \/ WaitForPrinterReady_Exit
  \/ GateElapse

SpecGate == InitGate /\ [][NextGate]_vars

\* ===== the usage ledger =====

\* "", "Hi" (1 line estimated), "A\nB\n" (3 lines estimated)
SafeTexts == { <<>>, <<72, 105>>, <<65, 10, 66, 10>> }
LedgerTexts == { <<72, 105>>, <<65, 10>> }
LedgerBytes == {65, ASCII_LF}
Estimates == {2, 3}
RollLengths == {DefaultRollLength}
LineHeights == {DefaultLineHeight}
\* persisted records found at boot: none; 8 mm short of the end of the
\* default roll and 3 characters short of a hundred; the line counter at its
\* last value
UsageRecords ==
  { NoRecord,
    [lines |-> 7498, chars |-> 97, feeds |-> 0, valid |-> TRUE],
    [lines |-> U32 - 1, chars |-> 0, feeds |-> 0, valid |-> TRUE] }

\* an integer as a float: rounded to a 24-bit significand, ties to even
Ulp(n) == CHOOSE p \in {2 ^ k : k \in 0..6} :
             /\ n < 16777216 * p
             /\ p = 1 \/ n >= 16777216 * (p \div 2)
RoundFloat(n) ==
  LET p == Ulp(n)
      q == n \div p
      r == n % p
  IN  IF 2 * r > p \/ (2 * r = p /\ q % 2 = 1) THEN (q + 1) * p ELSE q * p
ToFloat(x) == IF x >= 0 THEN RoundFloat(x) ELSE 0 - RoundFloat(0 - x)

\* get_paper_usage_mm(): (lines_printed_ + feeds_executed_) * line_height_mm_
get_paper_usage_mm(ctx) ==
  ToFloat(ToFloat((ctx.lines + ctx.feeds) % U32) * line_height_mm_)

\* mutant: a job that needs exactly what is left is refused
can_print_job_strict(ctx, estimated_lines) ==
  LET required_mm == ToFloat((estimated_lines % U16) * line_height_mm_)
      remaining_mm == ToFloat(paper_roll_length_ - get_paper_usage_mm(ctx))
  IN  required_mm < remaining_mm

\* can_print_job()
can_print_job(ctx, estimated_lines) ==
  LET required_mm == ToFloat((estimated_lines % U16) * line_height_mm_)
      remaining_mm == ToFloat(paper_roll_length_ - get_paper_usage_mm(ctx))
  IN  required_mm <= remaining_mm

\* estimate_lines_for_text(): second loop, a line is full at 32 characters
\* the body of the second loop of estimate_lines_for_text, for one character
WrapStep(st, c) ==
  IF c = ASCII_LF THEN [st EXCEPT !.current_line_length = 0]
  ELSE IF st.current_line_length + 1 >= LineWidth
       THEN [lines |-> st.lines + 1, current_line_length |-> 0]
  ELSE [st EXCEPT !.current_line_length = @ + 1]

RECURSIVE WrapScan(_, _)
WrapScan(st, text) ==
  IF text = <<>> THEN st
  ELSE IF Len(text) = 1 THEN WrapStep(st, text[1])
  ELSE LET half == Len(text) \div 2
           s1 == WrapScan(st, SubSeq(text, 1, half))
       IN  \* the first half is scanned before the second is begun
           IF s1.lines >= st.lines
           THEN WrapScan(s1, SubSeq(text, half + 1, Len(text)))
           ELSE s1

\* the lines the second loop adds
WrappedLines(text, current_line_length) ==
  WrapScan([lines |-> 0, current_line_length |-> current_line_length], text).lines

\* mutant: only the explicit line breaks are counted
estimate_lines_for_text_unwrapped(text) ==
  (1 + CountNewlines(text)) % U16

estimate_lines_for_text(text) ==
  (1 + CountNewlines(text) + WrappedLines(text, 0)) % U16

\* mutant: the counters are zeroed in memory only
reset_paper_usage_no_save(ctx) ==
  [ctx EXCEPT !.lines = 0, !.chars = 0, !.feeds = 0]

\* reset_paper_usage()
reset_paper_usage(ctx) ==
  save_usage_to_flash([ctx EXCEPT !.lines = 0, !.chars = 0, !.feeds = 0])

\* safe_print_text() of either revision: [ctx, rx, result, paper_ok]
safe_print_text(text, reply) ==
  IF Len(text) = 0
  THEN [ctx |-> Ctx0, rx |-> rx, result |-> "SUCCESS", paper_ok |-> "unchecked"]
  ELSE LET hp == has_paper(Ctx0, rx, reply)
       IN  IF ~hp.ok
           THEN [ctx |-> hp.ctx, rx |-> hp.rx, result |-> "PAPER_OUT",
                 paper_ok |-> "no"]
           ELSE IF rev = "evict" /\ ~can_print_job(hp.ctx, estimate_lines_for_text(text))
           THEN [ctx |-> hp.ctx, rx |-> hp.rx, result |-> "INSUFFICIENT_PAPER",
                 paper_ok |-> "yes"]
           ELSE [ctx |-> print_text(hp.ctx, text), rx |-> hp.rx,
                 result |-> "SUCCESS", paper_ok |-> "yes"]

InitUsage ==
  /\ rev \in {"reject", "evict"}
  /\ QueueIdle
  /\ GateIdle
  /\ paper_roll_length_ \in RollLengths
  /\ line_height_mm_ \in LineHeights
  /\ flash \in UsageRecords
  /\ lines_printed_ = load_usage_from_flash(flash).lines
  /\ characters_printed_ = load_usage_from_flash(flash).chars
  /\ feeds_executed_ = load_usage_from_flash(flash).feeds
  /\ now = SetupDelay
  /\ paper \in BOOLEAN
  /\ PollIdle

not_usage_vars == <<max_queue_size_, print_delay_ms_, queue_vars, now, executed,
                    roll_vars, gate_vars, poll_vars, probe>>

\* one call of the ledger's interface
UsageApply(ctx, rx2, op, fn, result, paper_ok, arg) ==
  /\ requests < MaxOps
  /\ requests' = requests + 1
  /\ Commit(ctx)
  /\ rx' = rx2
  /\ last' = [NoLast EXCEPT !.op = op, !.fn = fn, !.result = result,
                            !.paper_ok = paper_ok, !.sent = ctx.sent,
                            !.printed = ctx.printed, !.job = arg]
  /\ UNCHANGED <<rev, paper, not_usage_vars>>

Write ==
  \E c \in LedgerBytes :
    UsageApply(write(Ctx0, c), rx, "record", "write", "none", "unchecked", 0)

PrintText ==
  \E text \in LedgerTexts :
    UsageApply(print_text(Ctx0, text), rx, "record", "print_text", "none",
               "unchecked", 0)

Feed ==
  \E x \in FeedLines :
    UsageApply(feed(Ctx0, x), rx, "record", "feed", "none", "unchecked", 0)

ResetPaperUsage ==
  UsageApply(reset_paper_usage(Ctx0), rx, "reset", "reset_paper_usage",
             IF last.op = "reset" THEN "repeated" ELSE "first", "unchecked", 0)

CanPrintJob ==
  \E n \in Estimates :
    UsageApply(Ctx0, rx, "can_print", "can_print_job",
               IF can_print_job(Ctx0, n) THEN "true" ELSE "false", "unchecked", n)

SafePrintText ==
  \E text \in SafeTexts, reply \in Replies :
    LET r == safe_print_text(text, reply)
    IN  /\ ReplyFits(rx, reply)
        /\ UsageApply(r.ctx, r.rx, "safe_print", "safe_print_text", r.result,
                      r.paper_ok, estimate_lines_for_text(text))

\* power cycle: a fresh instance, setup() loads the persisted record
Restart ==
  /\ requests < MaxOps
  /\ requests' = requests + 1
  /\ lines_printed_' = load_usage_from_flash(flash).lines
  /\ characters_printed_' = load_usage_from_flash(flash).chars
  /\ feeds_executed_' = load_usage_from_flash(flash).feeds
  /\ rx' = <<>>
  /\ last' = [NoLast EXCEPT !.op = "restart"]
  /\ UNCHANGED <<rev, paper, flash, not_usage_vars>>

NextUsage ==
  \/ Write
  \/ PrintText
  \/ Feed
  \/ ResetPaperUsage
  \/ CanPrintJob
  \/ SafePrintText
  \/ Restart
  \/ PaperChange

SpecUsage == InitUsage /\ [][NextUsage]_vars

\* ----- the runtime setters of the calibration -----
CalibrationValues == {-1, 5}
RollLengthValues == {50000}

SetterApply(fn, arg) ==
  /\ requests < MaxOps
  /\ requests' = requests + 1
  /\ last' = [NoLast EXCEPT !.op = "set", !.fn = fn, !.job = arg]
  /\ UNCHANGED <<rev, paper, rx, usage_vars, max_queue_size_, print_delay_ms_,
                 queue_vars, now, executed, gate_vars, poll_vars, probe>>

\* set_paper_roll_length(): the argument is stored as it is
SetPaperRollLength ==
  \E length_mm \in RollLengthValues :
    /\ paper_roll_length_' = length_mm
    /\ UNCHANGED line_height_mm_
    /\ SetterApply("set_paper_roll_length", length_mm)

\* set_line_height_calibration(): the argument is stored as it is
SetLineHeightCalibration ==
  \E mm_per_line \in CalibrationValues :
    /\ line_height_mm_' = mm_per_line
    /\ UNCHANGED paper_roll_length_
    /\ SetterApply("set_line_height_calibration", mm_per_line)

NextCalibration ==
  \/ Write
  \/ PrintText
  \/ Feed
  \/ ResetPaperUsage
  \/ SetPaperRollLength
  \/ SetLineHeightCalibration

SpecCalibration == InitUsage /\ [][NextCalibration]_vars

\* ===== rev "reject": flush_queue_and_wait, stepped through its loop =====
\* One iteration (test, process_queue(), delay(100)) is one step; while the
\* loop runs no other handler does.  During a flush the paper stays as it is
\* and the printer answers every status query.
FlushReplies == {"intime"}

InitFlush ==
  /\ Init
  /\ rev = "reject"

\* flush_queue_and_wait() is entered: start_time = millis(), timeout 30000
FlushQueueAndWait_Call ==
  /\ rev = "reject"
  /\ call.pc = "idle"
  /\ call.n < MaxFlushes
  /\ call' = [NoCall EXCEPT !.pc = "flush", !.fn = "flush_queue_and_wait",
                            !.n = call.n + 1,
                            !.start_time = now, !.timeout_ms = FlushTimeoutMs]
  /\ last' = [NoLast EXCEPT !.op = "flush_call", !.fn = "flush_queue_and_wait"]
  /\ UNCHANGED <<config, queue_vars, usage_vars, env_vars, executed, requests,
                 roll_vars, dtr_enabled_, resume_time_micros_, dtr_timeout_count_,
                 total_bytes_sent_, dtr_waits_, timeout_waits_, micros,
                 printer_ready_in, wire, granted, poll_vars, probe>>

\* queue not empty and millis() - start_time < timeout_ms: process_queue(),
\* delay(100)
FlushQueueAndWait_Loop ==
  /\ call.pc = "flush"
  /\ print_queue_ # <<>>
  /\ Sub32(now, call.start_time) < call.timeout_ms
  /\ \E reply \in FlushReplies, d \in Durations :
       LET p == process_queue(reply, (now + d) % U32)
       IN  /\ ReplyFits(rx, reply)
           /\ ApplyFields([p EXCEPT !.now = (p.now + FlushPollMs) % U32],
                          "flush_tick", "process_queue")
           /\ is_processing_job_' = p.busy
           /\ last_job_time_' = p.last_time
  /\ UNCHANGED <<printer_busy_, last_print_time_, requests>>

\* the loop ends; the outcome is logged and the function, being void, hands
\* nothing to its caller
FlushQueueAndWait_Exit ==
  /\ call.pc = "flush"
  /\ ~(print_queue_ # <<>> /\ Sub32(now, call.start_time) < call.timeout_ms)
  /\ call' = [call EXCEPT !.pc = "idle"]
  /\ last' = [NoLast EXCEPT !.op = "flush", !.fn = "flush_queue_and_wait",
                            !.result = "none"]
  /\ UNCHANGED <<config, queue_vars, usage_vars, env_vars, executed, requests,
                 roll_vars, dtr_enabled_, resume_time_micros_, dtr_timeout_count_,
                 total_bytes_sent_, dtr_waits_, timeout_waits_, micros,
                 printer_ready_in, wire, granted, poll_vars, probe>>

NextFlush ==
  \/ call.pc = "idle" /\ QueueTextJob
  \/ call.pc = "idle" /\ QueueFeedJob
  \/ call.pc = "idle" /\ Elapse
  \/ call.pc = "idle" /\ PaperChange
  \/ FlushQueueAndWait_Call
  \/ FlushQueueAndWait_Loop
  \/ FlushQueueAndWait_Exit

SpecFlush == InitFlush /\ [][NextFlush]_vars

\* ===== the periodic paper check of loop() =====

\* time between two passes of loop() that get to poll
PollSteps == {11000}
\* the binary sensor registers its callback in its own setup(), before the
\* first loop(); 0: no sensor configured
Observers == {0, 1}

InitPaper ==
  /\ rev = "evict"
  /\ QueueIdle
  /\ RollDefaults
  /\ GateIdle
  /\ flash = NoRecord
  /\ lines_printed_ = 0
  /\ characters_printed_ = 0
  /\ feeds_executed_ = 0
  /\ now = SetupDelay
  /\ paper \in BOOLEAN
  /\ \E reply \in Replies : paper_status_ = has_paper(Ctx0, <<>>, reply).ok
  /\ last_paper_check_ = 0
  /\ paper_check_callback_ \in Observers
  /\ status_history = <<paper_status_>>
  /\ notified = <<>>

\* mutant: the observer is called after every poll
Loop_PaperCheck_always_notifies ==
  /\ Sub32(now, last_paper_check_) > PaperCheckIntervalMs
  /\ \E reply \in Replies :
       LET hp == has_paper(Ctx0, rx, reply)
           current_status == hp.ok
       IN  /\ ReplyFits(rx, reply)
           /\ last_paper_check_' = now
           /\ Commit(hp.ctx)
           /\ rx' = hp.rx
           /\ paper_status_' = current_status
           /\ status_history' = IF current_status # paper_status_
                                 THEN Append(status_history, current_status)
                                 ELSE status_history
           /\ notified' = IF paper_check_callback_ # 0
                           THEN Append(notified, [to |-> paper_check_callback_,
                                                  value |-> current_status])
                           ELSE notified
           /\ last' = [NoLast EXCEPT !.op = "poll", !.fn = "loop",
                                     !.result = IF current_status # paper_status_
                                                THEN "changed" ELSE "same",
                                     !.paper_ok = PaperStr(current_status),
                                     !.sent = hp.ctx.sent]
  /\ UNCHANGED <<config, queue_vars, now, paper, executed, requests, roll_vars,
                 gate_vars, paper_check_callback_, probe>>

\* loop(): more than 10 s since the last check: has_paper(), and on a change
\* of the status the new status is stored and handed to the observer
Loop_PaperCheck ==
  /\ Sub32(now, last_paper_check_) > PaperCheckIntervalMs
  /\ \E reply \in Replies :
       LET hp == has_paper(Ctx0, rx, reply)
           current_status == hp.ok
       IN  /\ ReplyFits(rx, reply)
           /\ last_paper_check_' = now
           /\ Commit(hp.ctx)
           /\ rx' = hp.rx
           /\ paper_status_' = current_status
           /\ status_history' = IF current_status # paper_status_
                                 THEN Append(status_history, current_status)
                                 ELSE status_history
           /\ notified' = IF current_status # paper_status_ /\ paper_check_callback_ # 0
                           THEN Append(notified, [to |-> paper_check_callback_,
                                                  value |-> current_status])
                           ELSE notified
           /\ last' = [NoLast EXCEPT !.op = "poll", !.fn = "loop",
                                     !.result = IF current_status # paper_status_
                                                THEN "changed" ELSE "same",
                                     !.paper_ok = PaperStr(current_status),
                                     !.sent = hp.ctx.sent]
  /\ UNCHANGED <<config, queue_vars, now, paper, executed, requests, roll_vars,
                 gate_vars, paper_check_callback_, probe>>

PollElapse ==
  /\ \E dt \in PollSteps :
       /\ now + dt <= MaxPollTime
       /\ now' = (now + dt) % U32
  /\ last' = [NoLast EXCEPT !.op = "env", !.fn = "elapse"]
  /\ UNCHANGED <<config, queue_vars, usage_vars, paper, rx, executed, requests,
                 roll_vars, gate_vars, poll_vars, probe>>

NextPaper ==
  \/ Loop_PaperCheck
  \/ PollElapse
  \/ PaperChange

SpecPaper == InitPaper /\ [][NextPaper]_vars

\* ----- the sensors that observe the paper status -----
\* 1: the binary sensor, 2: the text sensor
Sensors == {1, 2}

\* mutant: a slot already taken is kept
set_paper_check_callback_keeps_first(callback) ==
  IF paper_check_callback_ # 0 THEN paper_check_callback_ ELSE callback

\* set_paper_check_callback(): the value of the slot afterwards
set_paper_check_callback(callback) == callback

\* the sensors that have registered so far, in order
Registered == IF probe.fn = "set_paper_check_callback" THEN probe.registered ELSE <<>>

InitObservers ==
  /\ rev = "evict"
  /\ QueueIdle
  /\ RollDefaults
  /\ GateIdle
  /\ flash = NoRecord
  /\ lines_printed_ = 0
  /\ characters_printed_ = 0
  /\ feeds_executed_ = 0
  /\ now = SetupDelay
  /\ paper \in BOOLEAN
  /\ \E reply \in Replies : paper_status_ = has_paper(Ctx0, <<>>, reply).ok
  /\ last_paper_check_ = 0
  /\ paper_check_callback_ = 0
  /\ status_history = <<paper_status_>>
  /\ notified = <<>>

\* setup() of a sensor: it registers its callback with the component, then
\* asks has_paper() for the status it publishes first (the sensor's own state
\* is outside the component)
Sensor_Setup ==
  \E sensor \in Sensors, reply \in Replies :
    LET hp == has_paper(Ctx0, rx, reply)
    IN  /\ \A i \in 1..Len(Registered) : Registered[i] # sensor
        /\ ReplyFits(rx, reply)
        /\ paper_check_callback_' = set_paper_check_callback(sensor)
        /\ probe' = [fn |-> "set_paper_check_callback",
                     registered |-> Append(Registered, sensor)]
        /\ Commit(hp.ctx)
        /\ rx' = hp.rx
        /\ last' = [NoLast EXCEPT !.op = "register", !.fn = "setup",
                                  !.paper_ok = PaperStr(hp.ok), !.sent = hp.ctx.sent]
        /\ UNCHANGED <<config, queue_vars, now, paper, executed, requests, roll_vars,
                       gate_vars, paper_status_, last_paper_check_, status_history,
                       notified>>

NextObservers ==
  \/ Sensor_Setup
  \/ Loop_PaperCheck
  \/ PollElapse
  \/ PaperChange

SpecObservers == InitObservers /\ [][NextObservers]_vars

\* ===== a process tick, statement by statement =====
\* call.pc is the statement the tick has reached; probe holds its local job.
\* Nothing else runs until the tick is back at "idle".

tick_frame == <<config, jobs_dropped_, paper, requests, roll_vars, dtr_enabled_,
                resume_time_micros_, dtr_timeout_count_, total_bytes_sent_, dtr_waits_,
                timeout_waits_, micros, printer_ready_in, wire, granted, poll_vars>>

TickAt(pc) == call.pc = pc
TickTo(pc, op) ==
  /\ call' = [call EXCEPT !.pc = pc, !.fn = IF pc = "idle" THEN "none" ELSE "tick"]
  /\ last' = [NoLast EXCEPT !.op = "step", !.fn = op]

\* the guards of process_print_queue / process_queue, then the busy flag
\* and, in rev "evict", the start time
Tick_Guards ==
  \E reply \in Replies :
    LET asks == IF rev = "evict"
                THEN ~printer_busy_ /\ Sub32(now, last_print_time_) >= print_delay_ms_
                ELSE /\ print_queue_ # <<>>
                     /\ ~is_processing_job_
                     /\ Sub32(now, last_job_time_) >= print_delay_ms_
        hp == has_paper(Ctx0, rx, reply)
        go == asks /\ hp.ok /\ print_queue_ # <<>>
    IN  /\ TickAt("idle")
        /\ ReplyFits(rx, reply)
        /\ Commit(IF asks THEN hp.ctx ELSE Ctx0)
        /\ rx' = IF asks THEN hp.rx ELSE rx
        /\ printer_busy_' = IF go /\ rev = "evict" THEN TRUE ELSE printer_busy_
        /\ is_processing_job_' = IF go /\ rev = "reject" THEN TRUE ELSE is_processing_job_
        /\ current_job_start_time_' = IF go /\ rev = "evict" THEN now
                                      ELSE current_job_start_time_
        /\ call' = [call EXCEPT !.pc = IF go THEN "pop" ELSE "idle",
                                !.fn = IF go THEN "tick" ELSE "none"]
        /\ last' = [NoLast EXCEPT !.op = "step", !.fn = "guards",
                                  !.paper_ok = IF asks THEN PaperStr(hp.ok) ELSE "unchecked",
                                  !.sent = IF asks THEN hp.ctx.sent ELSE <<>>]
        /\ UNCHANGED <<print_queue_, last_print_time_, last_job_time_,
                       total_processing_time_, total_jobs_processed_, now, executed,
                       probe, tick_frame>>

\* job = front(); pop()
Tick_Pop ==
  /\ TickAt("pop")
  /\ probe' = [fn |-> "tick", job |-> Head(print_queue_)]
  /\ print_queue_' = Tail(print_queue_)
  /\ TickTo("execute", "pop")
  /\ UNCHANGED <<printer_busy_, is_processing_job_, last_print_time_, last_job_time_,
                 current_job_start_time_, total_processing_time_, total_jobs_processed_,
                 usage_vars, now, rx, executed, tick_frame>>

\* execute_print_job(job)
Tick_Execute ==
  \E d \in Durations :
    /\ TickAt("execute")
    /\ InHorizon((now + d) % U32)
    /\ Commit(IF rev = "evict" THEN execute_print_job(Ctx0, probe.job)
              ELSE execute_print_job_reject(Ctx0, probe.job))
    /\ now' = (now + d) % U32
    /\ executed' = Append(executed, [id |-> probe.job.id, priority |-> probe.job.priority])
    /\ TickTo(IF rev = "evict" THEN "statistics" ELSE "count", "execute")
    /\ UNCHANGED <<print_queue_, printer_busy_, is_processing_job_, last_print_time_,
                   last_job_time_, current_job_start_time_, total_processing_time_,
                   total_jobs_processed_, rx, probe, tick_frame>>

\* rev "evict": update_queue_statistics(millis() - current_job_start_time_)
Tick_Statistics ==
  /\ TickAt("statistics")
  /\ total_processing_time_' =
       (total_processing_time_ + Sub32(now, current_job_start_time_)) % U32
  /\ TickTo("stamp", "statistics")
  /\ UNCHANGED <<print_queue_, printer_busy_, is_processing_job_, last_print_time_,
                 last_job_time_, current_job_start_time_, total_jobs_processed_,
                 usage_vars, now, rx, executed, probe, tick_frame>>

\* last_print_time_ = millis() / last_job_time_ = millis()
Tick_Stamp ==
  /\ TickAt("stamp")
  /\ last_print_time_' = IF rev = "evict" THEN now ELSE last_print_time_
  /\ last_job_time_' = IF rev = "reject" THEN now ELSE last_job_time_
  /\ TickTo(IF rev = "evict" THEN "count" ELSE "clear", "stamp")
  /\ UNCHANGED <<print_queue_, printer_busy_, is_processing_job_,
                 current_job_start_time_, total_processing_time_, total_jobs_processed_,
                 usage_vars, now, rx, executed, probe, tick_frame>>

\* total_jobs_processed_++
Tick_Count ==
  /\ TickAt("count")
  /\ total_jobs_processed_' = (total_jobs_processed_ + 1) % U32
  /\ TickTo(IF rev = "evict" THEN "clear" ELSE "stamp", "count")
  /\ UNCHANGED <<print_queue_, printer_busy_, is_processing_job_, last_print_time_,
                 last_job_time_, current_job_start_time_, total_processing_time_,
                 usage_vars, now, rx, executed, probe, tick_frame>>

\* mutant: the tick returns with the busy flag as it is
Tick_Clear_keeps_busy ==
  /\ TickAt("clear")
  /\ UNCHANGED <<printer_busy_, is_processing_job_>>
  /\ TickTo("idle", "clear")
  /\ UNCHANGED <<print_queue_, last_print_time_, last_job_time_,
                 current_job_start_time_, total_processing_time_, total_jobs_processed_,
                 usage_vars, now, rx, executed, probe, tick_frame>>

\* printer_busy_ = false / is_processing_job_ = false, and the tick returns
Tick_Clear ==
  /\ TickAt("clear")
  /\ printer_busy_' = FALSE
  /\ is_processing_job_' = FALSE
  /\ TickTo("idle", "clear")
  /\ UNCHANGED <<print_queue_, last_print_time_, last_job_time_,
                 current_job_start_time_, total_processing_time_, total_jobs_processed_,
                 usage_vars, now, rx, executed, probe, tick_frame>>

NextTick ==
  \/ TickAt("idle") /\ QueueText
  \/ TickAt("idle") /\ QueueFeed
  \/ TickAt("idle") /\ QueueTextJob
  \/ TickAt("idle") /\ QueueFeedJob
  \/ TickAt("idle") /\ Elapse
  \/ Tick_Guards
  \/ Tick_Pop
  \/ Tick_Execute
  \/ Tick_Statistics
  \/ Tick_Stamp
  \/ Tick_Count
  \/ Tick_Clear

SpecTick == Init /\ [][NextTick]_vars

\* ===== construction, validation and setup =====

ConfiguredRollLengths == {-1, 0, DefaultRollLength, 50000}
ConfiguredLineHeights == {-1, 0, DefaultLineHeight, MaxLineHeightMm, 11}

\* set_heat_config()
set_heat_config(ctx, dots, time, interval) ==
  write_byte_with_flow_control(
    write_byte_with_flow_control(write_bytes3(ctx, ASCII_ESC, 55, dots), time), interval)

\* wake()
wake(ctx) ==
  set_heat_config(write_byte_with_flow_control(ctx, 255), HeatDots, HeatTime, HeatInterval)

online(ctx) == write_bytes3(ctx, ASCII_ESC, 61, 1)

set_line_height(ctx, height) ==
  write_bytes3(ctx, ASCII_ESC, 51, IF height < MinLineHeight THEN MinLineHeight ELSE height)

\* set_default()
set_default(ctx) ==
  set_line_height(
    set_size(underline_on(bold_on(inverse_on(justify(online(ctx), "L"), FALSE), FALSE),
                          FALSE), "S"),
    DefaultLineHeightDots)

\* validate_config(): fails for a missing UART only; the two scalars are
\* replaced by their defaults when out of range
validate_config(parent) ==
  [valid |-> parent,
   paper_roll_length |-> IF paper_roll_length_ <= 0 THEN DefaultRollLength
                         ELSE paper_roll_length_,
   line_height_mm |-> IF line_height_mm_ <= 0 \/ line_height_mm_ > MaxLineHeightMm
                      THEN DefaultLineHeight ELSE line_height_mm_]

\* the component as constructed and configured, before setup()
InitSetup ==
  /\ rev \in {"reject", "evict"}
  /\ QueueIdle
  /\ GateIdle
  /\ paper_roll_length_ \in ConfiguredRollLengths
  /\ line_height_mm_ \in ConfiguredLineHeights
  /\ flash \in StoredRecords
  /\ lines_printed_ = 0
  /\ characters_printed_ = 0
  /\ feeds_executed_ = 0
  /\ now = 0
  /\ paper \in BOOLEAN
  /\ paper_status_ = TRUE
  /\ last_paper_check_ = 0
  /\ paper_check_callback_ = 0
  /\ status_history = <<>>
  /\ notified = <<>>

\* a call of validate_config() before setup
ValidateConfig ==
  \E parent \in BOOLEAN :
    LET v == validate_config(parent)
    IN  /\ probe.fn = "none"
        /\ last.op = "init"
        /\ paper_roll_length_' = v.paper_roll_length
        /\ line_height_mm_' = v.line_height_mm
        /\ probe' = [fn |-> "validate_config", parent |-> parent, valid |-> v.valid]
        /\ UNCHANGED <<config, queue_vars, usage_vars, env_vars, executed, requests,
                       last, gate_vars, poll_vars>>

\* setup(): wait, drain the receive buffer, wake and configure the printer,
\* load the persisted counters, read the paper status; rev "reject" also
\* empties the queue
Setup ==
  \E reply \in Replies :
    LET c1 == set_default(set_heat_config(wake(Ctx0), HeatDots, HeatTime, HeatInterval))
        loaded == load_usage_from_flash(flash)
        c2 == [c1 EXCEPT !.lines = loaded.lines, !.chars = loaded.chars,
                         !.feeds = loaded.feeds]
        hp == has_paper(c2, <<>>, reply)
    IN  /\ last.op = "init"
        /\ Commit(hp.ctx)
        /\ now' = now + SetupDelay + WakeDelay + StatusDelay
        /\ rx' = hp.rx
        /\ paper_status_' = hp.ok
        /\ status_history' = <<hp.ok>>
        /\ print_queue_' = IF rev = "reject" THEN <<>> ELSE print_queue_
        /\ last_job_time_' = IF rev = "reject" THEN 0 ELSE last_job_time_
        /\ is_processing_job_' = IF rev = "reject" THEN FALSE ELSE is_processing_job_
        /\ last' = [NoLast EXCEPT !.op = "setup", !.sent = hp.ctx.sent,
                                  !.paper_ok = PaperStr(hp.ok)]
        /\ UNCHANGED <<config, printer_busy_, last_print_time_, current_job_start_time_,
                       total_processing_time_, total_jobs_processed_, jobs_dropped_,
                       paper, executed, requests, roll_vars, gate_vars,
                       last_paper_check_, paper_check_callback_, notified, probe>>

NextSetup ==
  \/ ValidateConfig
  \/ Setup

SpecSetup == InitSetup /\ [][NextSetup]_vars

\* ===== formatting and estimating calls =====

ColumnLens == {0, 5, 16, 20}
Sizes == {"S", "M", "L"}

\* a text of n characters c
TextOf(n, c) == [i \in 1..n |-> c]

\* print_padded_line(): the pad count is computed in a uint8_t
print_padded_line(ctx, left, right, total_width, pad_char) ==
  LET left_len == Len(left) % U8
      right_len == Len(right) % U8
      difference == (total_width - left_len - right_len) % U8
      padding == IF difference < 1 THEN 1 ELSE difference
      c1 == write_buffer(ctx, left)
      c2 == write_buffer(c1, TextOf(padding, pad_char))
      c3 == write_buffer(c2, right)
      c4 == write(c3, ASCII_LF)
  IN  track_print_operation(c4, total_width + 1, 1, 0)

\* print_two_column()
print_two_column(ctx, left_text, right_text, fill_dots, text_size) ==
  LET line_width == IF text_size = "M" THEN 24 ELSE IF text_size = "L" THEN 16 ELSE 32
      pad_char == IF fill_dots THEN 46 ELSE 32
  IN  set_size(print_padded_line(set_size(ctx, text_size), left_text, right_text,
                                 line_width, pad_char), "S")

InitFormat ==
  /\ rev \in {"reject", "evict"}
  /\ QueueIdle
  /\ RollDefaults
  /\ GateIdle
  /\ flash = NoRecord
  /\ lines_printed_ = 0
  /\ characters_printed_ = 0
  /\ feeds_executed_ = 0
  /\ now = SetupDelay
  /\ paper = TRUE
  /\ PollIdle

\* one formatting or estimating call
ProbeApply(ctx, fn, record) ==
  /\ requests < MaxProbes
  /\ requests' = requests + 1
  /\ Commit(ctx)
  /\ probe' = record
  /\ last' = [NoLast EXCEPT !.op = "format", !.fn = fn, !.sent = ctx.sent,
                            !.printed = ctx.printed]
  /\ UNCHANGED <<config, queue_vars, env_vars, executed, roll_vars, gate_vars,
                 poll_vars>>

PrintTwoColumn ==
  \E l \in ColumnLens, r \in ColumnLens, fill_dots \in BOOLEAN, text_size \in Sizes :
    LET ctx == print_two_column(Ctx0, TextOf(l, 65), TextOf(r, 66), fill_dots, text_size)
    IN  ProbeApply(ctx, "print_two_column",
                   [fn |-> "print_two_column", left |-> TextOf(l, 65),
                    right |-> TextOf(r, 66), text_size |-> text_size,
                    pad_char |-> IF fill_dots THEN 46 ELSE 32,
                    line |-> ctx.printed])

\* ----- the formatting the printer is left in -----
\* the parameter of the latest command a b n in a byte stream, if any
LastParam(bytes, a, b, otherwise) ==
  LET at == {i \in 1..(Len(bytes) - 2) : bytes[i] = a /\ bytes[i + 1] = b}
  IN  IF at = {} THEN otherwise
      ELSE bytes[(CHOOSE i \in at : \A j \in at : j <= i) + 2]

\* what the printer holds after a byte stream: ESC ! n (size), ESC a n
\* (justification), ESC E n (bold), ESC - n (underline), GS B n (inverse)
Formatting(before, bytes) ==
  [size |-> LastParam(bytes, ASCII_ESC, 33, before.size),
   justify |-> LastParam(bytes, ASCII_ESC, 97, before.justify),
   bold |-> LastParam(bytes, ASCII_ESC, 69, before.bold),
   underline |-> LastParam(bytes, ASCII_ESC, 45, before.underline),
   inverse |-> LastParam(bytes, 29, 66, before.inverse)]

\* the formatting setup() leaves: set_default()
DefaultFormatting ==
  Formatting([size |-> 0, justify |-> 0, bold |-> 0, underline |-> 0, inverse |-> 0],
             set_default(Ctx0).sent)

JobSizes == {1, 2, 3}
JobAligns == {0, 1, 2}

\* execute_print_job() of a Text job, on a printer as setup() left it
ExecuteTextJob ==
  \E text \in QueuedTexts, size \in JobSizes, align \in JobAligns, bold \in BOOLEAN :
    LET job == NewJob("TEXT", text, size, align, bold, 0)
        ctx == IF rev = "evict" THEN execute_print_job(Ctx0, job)
               ELSE execute_print_job_reject(Ctx0, job)
    IN  ProbeApply(ctx, "execute_print_job",
                   [fn |-> "execute_print_job", job |-> job,
                    before |-> DefaultFormatting,
                    after |-> Formatting(DefaultFormatting, ctx.sent)])

\* ----- write() in the timed mode, by baud rate -----
BaudRates == {1200, 2400, 9600, BaudRate, 38400, 115200}
\* microseconds between the two readings of micros()
MicrosBetween == {0, 1}
dot_feed_time_micros_ == 333

\* initialize_dtr_timings(): byte_time_micros_
initialize_dtr_timings(baud_rate) == (10 * 1000000) \div baud_rate

\* write(c) without handshaking, no wait pending: the byte is sent and the
\* resume time set to two byte times; a line feed sets it again, to sixteen
\* dot-feed times
WriteTimed ==
  \E baud_rate \in BaudRates, c \in LedgerBytes, between \in MicrosBetween :
    LET byte_time == initialize_dtr_timings(baud_rate)
        after_byte == (micros + byte_time * 2) % U32
        micros2 == (micros + between) % U32
        after_write == IF c = ASCII_LF THEN (micros2 + dot_feed_time_micros_ * 16) % U32
                       ELSE after_byte
        ctx == write(Ctx0, c)
    IN  /\ ~is_dtr_enabled
        /\ ~(micros < resume_time_micros_)
        /\ requests < MaxProbes
        /\ requests' = requests + 1
        /\ Commit(ctx)
        /\ timeout_waits_' = (timeout_waits_ + 1) % U32
        /\ wire' = Append(wire, c)
        /\ total_bytes_sent_' = (total_bytes_sent_ + 1) % U32
        /\ resume_time_micros_' = after_write
        /\ granted' = Sub32(after_write, micros2)
        /\ micros' = micros2
        /\ probe' = [fn |-> "write", byte |-> c, baud_rate |-> baud_rate,
                     micros |-> micros, resume_after_byte |-> after_byte]
        /\ last' = [NoLast EXCEPT !.op = "format", !.fn = "write", !.sent = ctx.sent,
                                  !.printed = ctx.printed]
        /\ UNCHANGED <<config, queue_vars, env_vars, executed, roll_vars, dtr_enabled_,
                       dtr_timeout_count_, dtr_waits_, printer_ready_in, call, poll_vars>>

\* ----- estimate_lines_for_text() -----
RunLens == {0, 5, 31, 32, 33, 64}
\* one run, or two runs with a line break between them, or after them
EstimateTexts ==
  {TextOf(n, 65) : n \in RunLens}
    \cup {TextOf(n, 65) \o <<ASCII_LF>> \o TextOf(m, 66) : n, m \in RunLens}
    \cup {TextOf(n, 65) \o <<ASCII_LF>> : n \in RunLens}

EstimateLinesForText ==
  \E text \in EstimateTexts :
    ProbeApply(Ctx0, "estimate_lines_for_text",
               [fn |-> "estimate_lines_for_text", text |-> text,
                result |-> estimate_lines_for_text(text)])

NextFormat ==
  \/ PrintTwoColumn
  \/ ExecuteTextJob
  \/ WriteTimed
  \/ EstimateLinesForText

SpecFormat == InitFormat /\ [][NextFormat]_vars

\* ===== rotated text =====
\* a letter, a space and a line break
RotatedChars == {65, 32, ASCII_LF}
MaxRotatedLen == 3
\* every short text, and two texts longer than the twenty characters printed
RotatedTexts ==
  UNION {[1..n -> RotatedChars] : n \in 0..MaxRotatedLen}
    \cup {TextOf(MaxRotatedChars + 1, 65), TextOf(MaxRotatedChars, 65) \o <<32>>}
Rotations == {0, 1}

InitRotate ==
  /\ rev \in {"reject", "evict", "dtr"}
  /\ QueueIdle
  /\ RollDefaults
  /\ dtr_enabled_ \in BOOLEAN
  /\ resume_time_micros_ = 0
  /\ dtr_timeout_count_ = 0
  /\ total_bytes_sent_ = 0
  /\ dtr_waits_ = 0
  /\ timeout_waits_ = 0
  /\ micros = 0
  /\ printer_ready_in = 0
  /\ wire = <<>>
  /\ granted = 0
  /\ call = NoCall
  /\ flash = NoRecord
  /\ lines_printed_ = 0
  /\ characters_printed_ = 0
  /\ feeds_executed_ = 0
  /\ now = SetupDelay
  /\ paper = TRUE
  /\ PollIdle

SetRotation ==
  \E rotation \in 0..4 :
    LET ctx == set_rotation(Ctx0, rotation)
    IN  ProbeApply(ctx, "set_rotation",
                   [fn |-> "set_rotation", rotation |-> rotation, sent |-> ctx.sent,
                    waits |-> ctx.waits])

PrintRotatedText ==
  \E text \in RotatedTexts, rotation \in Rotations :
    LET ctx == print_rotated_text(Ctx0, text, rotation)
    IN  ProbeApply(ctx, "print_rotated_text",
                   [fn |-> "print_rotated_text", text |-> text, rotation |-> rotation,
                    sent |-> ctx.sent, waits |-> ctx.waits])

NextRotate ==
  \/ SetRotation
  \/ PrintRotatedText

SpecRotate == InitRotate /\ [][NextRotate]_vars

\* ===== status queries =====
MaxStatusCalls == 2
\* status bytes: nothing set; bit 1; bit 2; bit 3; bits 2 and 3; bit 4; every
\* bit but 2 and 3; every bit
StatusBytes == {0, 2, 4, 8, PaperBits, 16, 243, 255}
PaperStatusBytes == {0, PaperBits}
Arrivals == {"intime", "late", "none"}

Bit(byte, k) == (byte \div (2 ^ k)) % 2 = 1

\* get_detailed_status() of the handshaking revisions
get_detailed_status(ctx, rxbuf, reply, status) ==
  LET hp == has_paper_reading(ctx, rxbuf, reply, status)
  IN  [ctx |-> hp.ctx, rx |-> hp.rx, returned |-> TRUE,
       status |-> [paper_present |-> hp.ok, cover_open |-> FALSE,
                   cutter_error |-> FALSE, printer_online |-> TRUE,
                   dtr_ready |-> dtr_ready, dtr_timeouts |-> dtr_timeout_count_]]

\* get_detailed_status() of the revision without handshaking ("plain"): two
\* queries, ESC v 0 and GS r 1, each followed by a read of at most one byte
get_detailed_status_plain(ctx, rxbuf, reply, status, device_reply, device) ==
  LET c1 == delay(write_bytes3(ctx, ASCII_ESC, 118, 0), 50)
      buf1 == IF reply = "intime" THEN Append(rxbuf, status) ELSE rxbuf
      got1 == buf1 # <<>>
      rest1 == IF got1 THEN Tail(buf1) ELSE buf1
      c2 == delay(write_bytes3(c1, 29, 114, 1), 50)
      buf2 == IF device_reply = "intime" THEN Append(rest1, device) ELSE rest1
      got2 == buf2 # <<>>
      printer_status == IF got2 THEN Head(buf2) ELSE 0
  IN  [ctx |-> c2, rx |-> IF got2 THEN Tail(buf2) ELSE buf2,
       returned |-> got1 \/ got2,
       status |-> [paper_present |-> got1 /\ PaperBitsClear(Head(buf1)),
                   cover_open |-> got2 /\ Bit(printer_status, 2),
                   cutter_error |-> got2 /\ Bit(printer_status, 3),
                   printer_online |-> got2 /\ ~Bit(printer_status, 1),
                   dtr_ready |-> TRUE, dtr_timeouts |-> 0]]

InitStatus ==
  /\ rev \in {"reject", "evict", "plain"}
  /\ QueueIdle
  /\ RollDefaults
  /\ dtr_enabled_ \in (IF rev = "plain" THEN {FALSE} ELSE BOOLEAN)
  /\ resume_time_micros_ = 0
  /\ dtr_timeout_count_ = 0
  /\ total_bytes_sent_ = 0
  /\ dtr_waits_ = 0
  /\ timeout_waits_ = 0
  /\ micros = 0
  /\ printer_ready_in = 0
  /\ wire = <<>>
  /\ granted = 0
  /\ call = NoCall
  /\ flash = NoRecord
  /\ lines_printed_ = 0
  /\ characters_printed_ = 0
  /\ feeds_executed_ = 0
  /\ now = SetupDelay
  /\ paper \in BOOLEAN
  /\ PollIdle

StatusApply(r, fn, record) ==
  /\ requests < MaxStatusCalls
  /\ requests' = requests + 1
  /\ Len(r.rx) <= RxMax
  /\ rx' = r.rx
  /\ probe' = record
  /\ last' = [NoLast EXCEPT !.op = "status", !.fn = fn, !.sent = r.ctx.sent]
  /\ UNCHANGED <<config, queue_vars, usage_vars, now, paper, executed, roll_vars,
                 gate_vars, poll_vars>>

\* has_paper(), the printer answering with any status byte
HasPaper ==
  \E reply \in Arrivals, status \in StatusBytes :
    LET hp == has_paper_reading(Ctx0, rx, reply, status)
    IN  StatusApply(hp, "has_paper",
                    [fn |-> "has_paper", rx |-> rx, reply |-> reply, status |-> status,
                     result |-> hp.ok, sent |-> hp.ctx.sent, waits |-> hp.ctx.waits,
                     left |-> hp.rx])

\* get_detailed_status(); device is the real-time status the printer holds
GetDetailedStatus ==
  \E reply \in {"intime", "none"}, status \in PaperStatusBytes,
     device_reply \in {"intime", "none"}, device \in StatusBytes :
    LET r == IF rev = "plain"
             THEN get_detailed_status_plain(Ctx0, rx, reply, status, device_reply, device)
             ELSE get_detailed_status(Ctx0, rx, reply, status)
    IN  StatusApply(r, "get_detailed_status",
                    [fn |-> "get_detailed_status", rx |-> rx, reply |-> reply,
                     status |-> status, device_reply |-> device_reply,
                     device |-> device, result |-> r.status, returned |-> r.returned,
                     sent |-> r.ctx.sent])

NextStatus ==
  \/ HasPaper
  \/ GetDetailedStatus

SpecStatus == InitStatus /\ [][NextStatus]_vars

\* ----- the four conditions of a process tick, on the state before it -----
Busy == IF rev = "evict" THEN printer_busy_ ELSE is_processing_job_
LastTime == IF rev = "evict" THEN last_print_time_ ELSE last_job_time_
DelayElapsed == Sub32(now, LastTime) >= print_delay_ms_
PaperQuery == <<ASCII_ESC, 118, 0>>

\* queue non-empty, not busy, delay elapsed, and has_paper() answered yes
TickGuardsHold ==
  /\ print_queue_ # <<>>
  /\ ~Busy
  /\ DelayElapsed
  /\ last'.paper_ok = "yes"

\* the tick gets as far as has_paper()
PaperAsked ==
  /\ ~Busy
  /\ DelayElapsed
  /\ rev = "reject" => print_queue_ # <<>>

\* ----- claims -----

\* C1: with the capacity fixed, the queue length never exceeds max_queue_size_.
C1_QueueWithinCapacity == Len(print_queue_) <= max_queue_size_

C3_TickDequeuesOne ==
  [][ last'.op = "tick"
        => /\ TickGuardsHold
              => /\ print_queue_' = Tail(print_queue_)
                 /\ last'.job = Head(print_queue_).id
                 /\ total_jobs_processed_' = total_jobs_processed_ + 1
           /\ ( /\ Len(print_queue_) = 1
                /\ Head(print_queue_).type = "TEXT"
                /\ paper
                /\ ~Busy
                /\ LastTime = 0
                /\ total_jobs_processed_ = 0 )
              => /\ Len(print_queue_') = 0
                 /\ total_jobs_processed_' = 1 ]_vars

\* C4: jobs are executed in the order in which they were accepted, whatever
\* their priority (ids are given in the order of the enqueue calls).
C4_FifoOrder ==
  \A i, j \in DOMAIN executed : i < j => executed[i].id < executed[j].id

C4_Witness ==
  \E i, j \in DOMAIN executed : i < j /\ executed[i].priority < executed[j].priority

\* C5: a job is handed to execute_print_job at most once and is not in the
\* queue any more once it has been.
C5_AtMostOnce ==
  /\ \A i, j \in DOMAIN executed : i # j => executed[i].id # executed[j].id
  /\ \A i \in DOMAIN executed, k \in DOMAIN print_queue_ :
       print_queue_[k].id # executed[i].id

C5_Witness ==
  /\ Len(executed) >= 2
  /\ last.op = "tick"
  /\ last.job = 0

\* C6: an enqueue at or above capacity reports QUEUE_FULL and counts one
\* dropped job; an enqueue below capacity returns SUCCESS, appends the job
\* with the current timestamp and leaves the dropped counter alone.  (A
\* queue_text_job call with an empty text builds no job and is not counted as
\* an enqueue here.)
C6_EnqueueResult ==
  [][ last'.op = "enqueue"
        => IF Len(print_queue_) >= max_queue_size_
           THEN /\ last'.result = "QUEUE_FULL"
                /\ jobs_dropped_' = jobs_dropped_ + 1
           ELSE /\ last'.result = "SUCCESS"
                /\ Len(print_queue_') = Len(print_queue_) + 1
                /\ SubSeq(print_queue_', 1, Len(print_queue_)) = print_queue_
                /\ print_queue_'[Len(print_queue_')].timestamp = now
                /\ jobs_dropped_' = jobs_dropped_ ]_vars

\* C7: under reject-new, a rejected enqueue leaves the queue as it was.
C7_RejectLeavesQueue ==
  [][ (last'.op = "enqueue" /\ rev = "reject" /\ last'.result = "QUEUE_FULL")
        => print_queue_' = print_queue_ ]_vars

C7_Witness ==
  /\ rev = "reject"
  /\ last.op = "enqueue"
  /\ last.result = "QUEUE_FULL"
  /\ Len(print_queue_) >= 2

\* C8: under evict-oldest, an enqueue at capacity evicts exactly the front job
\* and appends the new one; the rest keeps its order and the length equals the
\* capacity.
C8_EvictOldest ==
  [][ (last'.op = "enqueue" /\ rev = "evict" /\ Len(print_queue_) >= max_queue_size_)
        => /\ print_queue_ # <<>>
           /\ last'.evicted = Head(print_queue_).id
           /\ Len(print_queue_') = max_queue_size_
           /\ SubSeq(print_queue_', 1, Len(print_queue_') - 1) = Tail(print_queue_)
           /\ print_queue_'[Len(print_queue_')].id = last'.accepted ]_vars

C10_ImmediateBypassesQueue ==
  [][ last'.op = "immediate" => print_queue_' = print_queue_ ]_vars

C10_Witness ==
  /\ last.op = "immediate"
  /\ last.result = "SUCCESS"
  /\ Len(print_queue_) >= 2

\* C11: with every handler run to completion on the one event-loop thread, the
\* busy flag excludes overlapping output: a handler entered while a job is in
\* progress (flag set) sends no byte and starts no job, and a handler that
\* starts a job or an immediate print has finished it, flag cleared, when it
\* returns, so the flag is as the handler found it.
C11_BusyFlagExcludes ==
  [][ /\ Busy => (last'.sent = <<>> /\ last'.job = 0 /\ last'.printed = <<>>)
      /\ Busy' = Busy ]_vars

C11_Witness ==
  /\ Busy
  /\ rev = "evict"
  /\ last.op = "tick"
  /\ DelayElapsed
  /\ print_queue_ # <<>>
  /\ paper
  /\ last.sent = <<>>

C13_WaitReadyBounded ==
  [][ /\ (call.pc = "wait_ready" /\ call'.pc = "idle")
          => /\ call'.timed_out
                 => /\ Sub32(now', call.start_time) = call.timeout_ms + 1
                    /\ dtr_timeout_count_' = (dtr_timeout_count_ + 1) % U32
             /\ ~call'.timed_out
                 => /\ Sub32(now', call.start_time) <= call.timeout_ms + 1
                    /\ dtr_timeout_count_' = dtr_timeout_count_
             /\ printer_ready_in = -1 => call'.timed_out
             /\ printer_ready_in = 0 => ~call'.timed_out
      /\ (call.pc = "wait_ready" /\ call'.pc = "wait_ready")
          => Sub32(now', call.start_time) <= call.timeout_ms + 1
    ]_vars

C13_Witness ==
  /\ call.pc = "idle"
  /\ call.fn = "wait_for_printer_ready"
  /\ is_dtr_enabled
  /\ call.timed_out
  /\ call.timeout_ms = 100
  /\ Sub32(now, call.start_time) = 101
  /\ dtr_timeout_count_ = 1

\* C14: with handshaking off, timeout_wait never waits longer than the delay
\* given to the timeout_set before it, whatever the value of the microsecond
\* clock, also when micros() + delay or the clock wraps.
C14_TimedWaitBounded ==
  (call.fn = "write_byte_with_flow_control" /\ ~is_dtr_enabled)
     => call.waited <= granted

\* ----- the ledger as the claims read it -----
UsageMm == get_paper_usage_mm(Ctx0)
Counters == [lines |-> lines_printed_, chars |-> characters_printed_,
             feeds |-> feeds_executed_]
ZeroCounters == [lines |-> 0, chars |-> 0, feeds |-> 0]

\* C15: no operation that records usage (write, print_text, feed, the print
\* operations built on them) makes get_paper_usage_mm() smaller, the
\* calibration being fixed and no reset in between.
C15_UsageMonotonic ==
  [][ last'.op \in {"record", "safe_print", "can_print"} => UsageMm' >= UsageMm ]_vars

\* C16: what save_usage_to_flash stores, load_usage_from_flash gives back: the
\* three counters, each in its own place; and a fresh instance after a
\* restart holds the counters of the persisted record.
C16_SaveLoadRoundTrip ==
  [][ /\ load_usage_from_flash(save_usage_to_flash(Ctx0).flash) = Counters
      /\ (last'.op = "restart" /\ flash.valid)
           => Counters' = [lines |-> flash.lines, chars |-> flash.chars,
                           feeds |-> flash.feeds] ]_vars

C16_Witness ==
  /\ last.op = "restart"
  /\ flash.valid
  /\ flash.chars = SaveEvery
  /\ Counters = [lines |-> flash.lines, chars |-> SaveEvery, feeds |-> flash.feeds]
  /\ flash.lines # flash.chars

\* C17: reset_paper_usage leaves the three counters zero and the persisted
\* record all-zero, and a second reset right after the first changes nothing.
C17_ResetIdempotent ==
  [][ last'.op = "reset"
        => /\ Counters' = ZeroCounters
           /\ flash' = [lines |-> 0, chars |-> 0, feeds |-> 0, valid |-> TRUE]
           /\ last.op = "reset" => UNCHANGED usage_vars ]_vars

C17_Witness ==
  /\ last.op = "reset"
  /\ last.result = "repeated"
  /\ Counters = ZeroCounters
  /\ flash = [lines |-> 0, chars |-> 0, feeds |-> 0, valid |-> TRUE]

\* C18: whenever an operation takes characters_printed_ to or past a multiple
\* of 100 the counters are saved, so the persisted record holds at least that
\* multiple and the counter in memory is less than 100 ahead of it.
C18_SavedEveryHundred ==
  [][ (last'.op \in {"record", "safe_print"}
         /\ characters_printed_' \div SaveEvery > characters_printed_ \div SaveEvery)
        => /\ flash'.valid
           /\ flash'.chars >= SaveEvery * (characters_printed_' \div SaveEvery)
           /\ characters_printed_' - flash'.chars < SaveEvery ]_vars

\* C19: can_print_job(n) answers true exactly when n lines at the calibrated
\* height fit into what is left of the roll, roll length minus
\* get_paper_usage_mm(); never when the usage is beyond the roll length.
C19_PaperGate ==
  [][ last'.op = "can_print"
        => /\ (last'.result = "true")
                <=> (last'.job * line_height_mm_ <= paper_roll_length_ - UsageMm)
           /\ UsageMm > paper_roll_length_ => last'.result = "false" ]_vars

C19_Witness ==
  /\ last.op = "can_print"
  /\ last.job = 2
  /\ last.result = "true"
  /\ paper_roll_length_ - UsageMm = 2 * line_height_mm_

\* C20: safe_print_text returns PAPER_OUT when has_paper() answers no and
\* INSUFFICIENT_PAPER when the estimated lines do not fit the rest of the
\* roll, printing nothing and leaving the counters alone in both cases; it
\* returns SUCCESS only with the text printed, or for an empty text.
C20_SafePrintText ==
  [][ last'.op = "safe_print"
        => /\ last'.paper_ok = "no" => last'.result = "PAPER_OUT"
           /\ (last'.paper_ok = "yes" /\ ~can_print_job(Ctx0, last'.job))
                => last'.result = "INSUFFICIENT_PAPER"
           /\ last'.result \in {"PAPER_OUT", "INSUFFICIENT_PAPER"}
                => (last'.printed = <<>> /\ Counters' = Counters)
           /\ last'.result = "SUCCESS"
                => \/ last'.paper_ok = "unchecked" /\ last'.sent = <<>>
                   \/ last'.printed \in SafeTexts \ {<<>>} ]_vars

\* C21: flush_queue_and_wait terminates: it runs the processing step while
\* the queue is not empty and the timeout has not elapsed, each round taking
\* time, so it is over within the timeout plus one round; and it tells its
\* caller whether the queue was drained.
C21_FlushTerminatesAndReports ==
  [][ /\ (call.pc = "flush" /\ last'.op = "flush_tick")
          => /\ Sub32(now', call.start_time) > Sub32(now, call.start_time)
             /\ Sub32(now, call.start_time) < call.timeout_ms
      /\ (call.pc = "flush" /\ call'.pc = "idle")
          => /\ print_queue_' = <<>> \/ Sub32(now', call.start_time) >= call.timeout_ms
             /\ last'.result = IF print_queue_' = <<>> THEN "drained" ELSE "timeout"
    ]_vars

WidthOf(text_size) == IF text_size = "M" THEN 24 ELSE IF text_size = "L" THEN 16 ELSE 32
Max(a, b) == IF a > b THEN a ELSE b

\* C23: a two-column line at width W (32, 24, 16 for Small, Medium, Large) is
\* the left text, N pad characters, the right text and the line end, with
\* N = max(1, W - len(left) - len(right)) for every pair of lengths; so it is
\* W characters wide whenever the texts fit.
C23_TwoColumnPadding ==
  [][ probe'.fn = "print_two_column"
        => LET W == WidthOf(probe'.text_size)
               N == Max(1, W - Len(probe'.left) - Len(probe'.right))
           IN  probe'.line = probe'.left \o TextOf(N, probe'.pad_char)
                               \o probe'.right \o <<ASCII_LF>> ]_vars

\* C24: in every reachable state, the runtime setters of the roll length and
\* the line height included, get_paper_usage_mm() is (lines_printed_ +
\* feeds_executed_) * mm_per_line and is not negative.
C24_UsageFormula ==
  /\ UsageMm = (lines_printed_ + feeds_executed_) * line_height_mm_
  /\ UsageMm >= 0

\* C25: validation does not fail startup for an out-of-range scalar, and once
\* setup has run the roll length is positive and the line height is in
\* (0, 10]: a roll length <= 0 has become 30000 mm, a line height <= 0 or
\* > 10 has become 4 mm.
C25_ScalarsValidAfterSetup ==
  /\ probe.fn = "validate_config" => probe.valid = probe.parent
  /\ last.op = "setup" =>
       /\ paper_roll_length_ > 0
       /\ line_height_mm_ > 0
       /\ line_height_mm_ <= MaxLineHeightMm

\* C26: a queued job starts no sooner than print_delay_ms_ after the
\* completion of the previous queued job or successful print_immediate, the
\* completion being the time the handler records; also when the 32-bit
\* millisecond clock wraps between the two.
C26_DelayBetweenJobs ==
  [][ /\ (last'.op = "tick" /\ last'.job # 0)
          => /\ Sub32(now, LastTime) >= print_delay_ms_
             /\ rev = "evict" =>
                  Sub32(current_job_start_time_', LastTime) >= print_delay_ms_
      /\ IF \/ last'.op = "tick" /\ last'.job # 0
            \/ last'.op = "immediate" /\ last'.result = "SUCCESS"
         THEN LastTime' = now'
         ELSE LastTime' = LastTime ]_vars

\* a second job has run, begun after the clock wrapped, with a delay set
C26_Witness ==
  /\ last.op = "tick"
  /\ last.job # 0
  /\ Len(executed) = 2
  /\ print_delay_ms_ = DefaultPrintDelay
  /\ now <= MaxTime
  /\ rev = "evict" => current_job_start_time_ <= MaxTime

\* ----- the order of a tick's statements, read off the fields they change -----
Uncounted == Len(executed) = total_jobs_processed_ + 1
PopsUnderBusy == Len(print_queue_') < Len(print_queue_) => Busy /\ Busy'
ExecutesPopped ==
  executed' # executed =>
    /\ Busy /\ Busy'
    /\ \A i \in 1..Len(print_queue_) : print_queue_[i].id # executed'[Len(executed')].id
StatisticsAfterJob ==
  total_processing_time_' # total_processing_time_ => Busy /\ Busy' /\ Uncounted

\* C27: in a tick the busy flag is set, the front job popped, the job
\* executed, the duration statistics updated, the busy flag cleared, the
\* last-job timestamp recorded and the processed counter incremented, in this
\* order; and the busy flag is false whenever the tick is not running.
C27_TickOrder ==
  [][ /\ PopsUnderBusy
      /\ ExecutesPopped
      /\ StatisticsAfterJob
      /\ (Busy /\ ~Busy') => (Uncounted /\ LastTime' = LastTime)
      /\ LastTime' # LastTime => (~Busy /\ Uncounted /\ LastTime' = now)
      /\ total_jobs_processed_' # total_jobs_processed_ => (~Busy /\ LastTime = now)
      /\ call'.pc = "idle" => ~Busy' ]_vars

\* C27 (as the code has it): the busy flag is set, the front job popped, the
\* job executed; then rev "evict" updates the duration statistics, records
\* the timestamp and increments the processed counter, rev "reject"
\* increments the counter and records the timestamp; clearing the busy flag
\* is the last statement, so the flag is false whenever the tick is not
\* running.
C27_BusyClearedLast ==
  [][ /\ PopsUnderBusy
      /\ ExecutesPopped
      /\ StatisticsAfterJob
      /\ LastTime' # LastTime =>
           /\ Busy /\ Busy'
           /\ LastTime' = now
           /\ IF rev = "evict" THEN Uncounted ELSE ~Uncounted
      /\ total_jobs_processed_' # total_jobs_processed_ =>
           /\ Busy /\ Busy'
           /\ Uncounted
           /\ rev = "evict" => LastTime = now
      /\ (Busy /\ ~Busy') =>
           /\ ~Uncounted
           /\ LastTime = now
           /\ call'.pc = "idle"
      /\ call'.pc = "idle" => ~Busy' ]_vars

\* a tick has run to its end and the flag is down
C27_Witness ==
  /\ call.pc = "idle"
  /\ last.fn = "clear"
  /\ Len(executed) = 2
  /\ total_jobs_processed_ = 2
  /\ ~Busy

\* C28: after a Text job the text size, the justification and the bold
\* setting of the printer are what they were before the job.
C28_TextJobRestoresFormatting ==
  [][ probe'.fn = "execute_print_job"
        => /\ probe'.after.size = probe'.before.size
           /\ probe'.after.justify = probe'.before.justify
           /\ probe'.after.bold = probe'.before.bold ]_vars

\* C29: without handshaking, write of a line feed leaves the resume time no
\* earlier than the one write_byte_with_flow_control had just set for the
\* byte (two byte times ahead), whatever the baud rate.
C29_NewlineExtendsResume ==
  [][ (probe'.fn = "write" /\ probe'.byte = ASCII_LF)
        => Sub32(resume_time_micros_', probe'.micros)
             >= Sub32(probe'.resume_after_byte, probe'.micros) ]_vars

\* ----- the line breaks of a text, counted position by position -----
ExplicitBreaks(text) == Cardinality({i \in 1..Len(text) : text[i] = ASCII_LF})
\* the position of the latest line break before position i, 0 if none
BreakBefore(text, i) ==
  LET breaks == {j \in 1..(i - 1) : text[j] = ASCII_LF}
  IN  IF breaks = {} THEN 0 ELSE CHOOSE j \in breaks : \A k \in breaks : k <= j
\* every 32nd character of a run without a line break
ImpliedBreaks(text) ==
  Cardinality({i \in 1..Len(text) :
                 /\ text[i] # ASCII_LF
                 /\ (i - BreakBefore(text, i)) % LineWidth = 0})

\* C30: estimate_lines_for_text returns the number of explicit line breaks
\* plus one implied break for every 32 consecutive characters without a line
\* break, the run starting again at each line break.
C30_EstimateIsBreaks ==
  [][ probe'.fn = "estimate_lines_for_text"
        => probe'.result = ExplicitBreaks(probe'.text) + ImpliedBreaks(probe'.text) ]_vars

\* C30 (as the code has it): the estimate is one line, plus the explicit
\* line breaks, plus the implied breaks.
C30_EstimateIsOnePlusBreaks ==
  [][ probe'.fn = "estimate_lines_for_text"
        => probe'.result
             = 1 + ExplicitBreaks(probe'.text) + ImpliedBreaks(probe'.text) ]_vars

\* a text with a line break and, after it, a run that wraps
C30_Witness ==
  /\ probe.fn = "estimate_lines_for_text"
  /\ ExplicitBreaks(probe.text) = 1
  /\ ImpliedBreaks(probe.text) = 2
  /\ BreakBefore(probe.text, Len(probe.text)) = 32
  /\ probe.result = 4

\* the positions in a byte stream of the characters put on paper: the letter,
\* and the last byte of the substitute for a space
Emitted(sent) == {i \in 1..Len(sent) : sent[i] \in {65, 183}}

\* a wait follows the byte at position i before another character is emitted
WaitFollows(sent, waits, i) ==
  \E k \in 1..Len(waits) :
    /\ waits[k].after >= i
    /\ \A j \in Emitted(sent) : j > i => waits[k].after < j
    /\ waits[k].fn = IF dtr_enabled_ THEN "wait_for_printer_ready" ELSE "delay"

C32_HasPaperDecodes ==
  probe.fn = "has_paper"
  => LET buf == IF probe.reply = "intime" THEN Append(probe.rx, probe.status)
                ELSE probe.rx
         came == IF probe.reply = "late" THEN 1 ELSE 0
     IN  /\ probe.sent = PaperQuery
         /\ Len(probe.waits) = 1 /\ probe.waits[1].after = Len(PaperQuery)
         /\ Len(buf) - (Len(probe.left) - came) \in {0, 1}
         /\ (buf = <<>>) => Len(probe.left) - came = 0
         /\ probe.result = ~(buf # <<>> /\ (Bit(buf[1], 2) \/ Bit(buf[1], 3)))

C32_Witness ==
  /\ probe.fn = "has_paper"
  /\ probe.reply = "intime"
  /\ probe.rx = <<>>
  /\ probe.status = 8
  /\ ~probe.result

\* C33: with hardware handshaking active, get_detailed_status reports the
\* cover-open, cutter-error and online bits as the device's status holds them
\* (bit 2, bit 3 and bit 1 clear); the defaults (online, no cover fault, no
\* cutter error) are what it returns without handshaking only.
C33_DetailedStatusDecodes ==
  (probe.fn = "get_detailed_status" /\ dtr_enabled_)
  => /\ probe.result.cover_open = Bit(probe.device, 2)
     /\ probe.result.cutter_error = Bit(probe.device, 3)
     /\ probe.result.printer_online = ~Bit(probe.device, 1)

\* C34: print_text of a non-empty text of n characters, k of them line
\* breaks, adds exactly n to characters_printed_ and exactly k to
\* lines_printed_, and leaves feeds_executed_ as it was.
C34_PrintTextCountsOnce ==
  [][ (last'.fn = "print_text" /\ requests' = requests + 1 /\ last'.printed # <<>>)
      => /\ characters_printed_' = (characters_printed_ + Len(last'.printed)) % U32
         /\ lines_printed_' = (lines_printed_ + ExplicitBreaks(last'.printed)) % U32
         /\ feeds_executed_' = feeds_executed_ ]_vars

\* C35: job accounting is conserved.  The state keeps no count of the jobs
\* removed by clear_print_queue / clear_queue, so the balance is stated step
\* by step, which with the all-zero initial state is the same: every enqueue
\* call with a payload adds one to total_jobs_processed_ + queue length +
\* jobs_dropped_ + jobs cleared, and no other step changes that sum.
C35_JobsConserved ==
  [][ LET enqueued == IF last'.op = "enqueue" /\ requests' = requests + 1 THEN 1 ELSE 0
          cleared == IF last'.op = "clear" /\ print_queue_' = <<>>
                     THEN Len(print_queue_) ELSE 0
      IN  enqueued = (total_jobs_processed_' - total_jobs_processed_)
                       + (Len(print_queue_') - Len(print_queue_))
                       + (jobs_dropped_' - jobs_dropped_)
                       + cleared ]_vars

\* C37: queue_print_job takes its eviction branch (pop, jobs_dropped_++) only
\* when the queue holds at least one job, whatever capacity was set.
C37_EvictsFromNonEmpty ==
  [][ (rev = "evict" /\ last'.op = "enqueue" /\ requests' = requests + 1
         /\ jobs_dropped_' # jobs_dropped_)
      => Len(print_queue_) >= 1 ]_vars

\* ===== loop() with automatic queue processing, scheduled fairly =====
\* auto_process_queue_ is true (its default).  The event loop calls loop()
\* again and again, and the millisecond clock advances: both are weakly fair.
\* The clock is followed only while a queued job waits for the inter-job
\* delay; at other times its value does not enter any guard until it wraps.

LiveApply(p, op, fn) ==
  /\ ApplyFields(p, op, fn)
  /\ IF rev = "evict"
     THEN /\ printer_busy_' = p.busy
          /\ last_print_time_' = p.last_time
          /\ UNCHANGED <<is_processing_job_, last_job_time_>>
     ELSE /\ is_processing_job_' = p.busy
          /\ last_job_time_' = p.last_time
          /\ UNCHANGED <<printer_busy_, last_print_time_>>

\* queue_text / queue_text_job, called from a service
Live_Enqueue ==
  /\ requests < MaxJobs
  /\ requests' = requests + 1
  /\ \E text \in QueuedTexts :
       IF rev = "evict"
       THEN \E p \in queue_print_job(create_text_job(text, 2, 0, FALSE, 0)) :
              LiveApply(p, "enqueue", "queue_text")
       ELSE LiveApply(queue_text_job(text, 2, 0, FALSE, FALSE, FALSE), "enqueue",
                      "queue_text_job")

\* loop(): the queue part
Loop_ProcessQueue ==
  /\ \E reply \in Replies, d \in Durations :
       LET t2 == (now + d) % U32
           p == IF rev = "evict" THEN process_print_queue(reply, t2)
                ELSE IF print_queue_ # <<>> /\ ~is_processing_job_
                        /\ Sub32(now, last_job_time_) >= print_delay_ms_
                     THEN process_queue(reply, t2)
                     ELSE PreReject
       IN  LiveApply(p, "tick", "loop")
  /\ UNCHANGED requests

Tock ==
  /\ print_queue_ # <<>>
  /\ ~DelayElapsed
  /\ now' = (now + TimeStep) % U32
  /\ last' = [NoLast EXCEPT !.op = "env", !.fn = "elapse"]
  /\ UNCHANGED <<config, queue_vars, usage_vars, paper, rx, executed, requests,
                 roll_vars, gate_vars, poll_vars, probe>>

NextLive ==
  \/ Live_Enqueue
  \/ Loop_ProcessQueue
  \/ Tock
  \/ PaperChange

SpecLive ==
  Init /\ [][NextLive]_vars /\ WF_vars(Loop_ProcessQueue) /\ WF_vars(Tock)

\* if paper stays present from some point on, the queue is empty from some
\* point on
QueueDrains == <>[]paper => <>[](print_queue_ = <<>>)

\* a job leaves the queue in a tick only as the front job, and is executed
PoppedIsExecuted ==
  [][ (last'.op = "tick" /\ print_queue_' # print_queue_)
      => /\ print_queue_' = Tail(print_queue_)
         /\ executed' = Append(executed, [id |-> Head(print_queue_).id,
                                          priority |-> Head(print_queue_).priority])
         /\ total_jobs_processed_' = (total_jobs_processed_ + 1) % U32 ]_vars

\* a tick made while there is no paper in the printer leaves the jobs queued,
\* unexecuted and uncounted
AbsentPaperHolds ==
  [][ (last'.op = "tick" /\ ~paper)
      => UNCHANGED <<print_queue_, executed, total_jobs_processed_>> ]_vars

\* C36: with automatic processing, if from some point on paper stays present
\* and no job is enqueued or cleared, the queue eventually becomes empty and
\* every job that left it was executed; while paper is absent the queued jobs
\* stay in the queue, unexecuted and uncounted.
C36_QueueLiveness == QueueDrains /\ PoppedIsExecuted /\ AbsentPaperHolds

\* C38: the observer is a single slot.  Once sensors have registered, a poll
\* that finds the paper status changed makes exactly one call, to the sensor
\* that registered last; no other step makes a call, so a sensor that
\* registered earlier is not called after another has registered.
C38_SingleObserverSlot ==
  [][ /\ (last'.op = "poll" /\ last'.result = "changed" /\ Registered # <<>>)
          => notified' = Append(notified, [to |-> Registered[Len(Registered)],
                                           value |-> paper_status_'])
      /\ ~(last'.op = "poll" /\ last'.result = "changed") => notified' = notified
      /\ paper_check_callback_ = (IF Registered = <<>> THEN 0
                                  ELSE Registered[Len(Registered)]) ]_vars

C38_Witness ==
  /\ Len(Registered) = 2
  /\ last.op = "poll"
  /\ last.result = "changed"
  /\ notified # <<>>
  /\ \A i \in 1..Len(notified) : notified[i].to = Registered[2]

\* C39: what a has_paper call decodes is the printer's reply to the query of
\* that same call: its result is the decoding of the reply when the reply
\* came within the call's wait, and the no-response default otherwise; a
\* byte left in the receive buffer by an earlier query has no part in it.
C39_DecodesOwnReply ==
  probe.fn = "has_paper"
  => probe.result = (IF probe.reply = "intime"
                     THEN ~(Bit(probe.status, 2) \/ Bit(probe.status, 3))
                     ELSE TRUE)
====
